---- MODULE Spec2Model ----
(***************************************************************************)
(* State-machine model of ts4-mod-auto-classifier.                         *)
(*                                                                         *)
(*   src/mod_classifier.py      ModClassifier, ruler v3.0                  *)
(*   src/src/mod_classifier.py  ModClassifier, keyword/priority version;   *)
(*                              its definitions carry the prefix src_      *)
(*                                                                         *)
(* Text is ASCII here: the em dash U+2014 of the labels is written "--"    *)
(* and accented letters are written without their accent.                  *)
(***************************************************************************)
EXTENDS Integers, Sequences, FiniteSets, TLC

(***************************************************************************)
(* Bounds of the model.                                                    *)
(***************************************************************************)
MaxCalls == 3
MaxBatch == 3

(***************************************************************************)
(* Python values.  A value carries its type and the text that formatting   *)
(* it inside an f-string yields.  Unprintable is an object whose __str__   *)
(* raises an Exception, so formatting it raises.                           *)
(***************************************************************************)
Str(s) == [type |-> "str", text |-> s]
None == [type |-> "NoneType", text |-> "None"]
Unprintable == [type |-> "object", text |-> "<__str__ raises>"]

\* f"{v}": whether the replacement field can be formatted, and its text.
format_raises(v) == v = Unprintable
format(v) == v.text

\* The outcome of a call: a returned value, or an exception that propagates
\* to the caller.
Return(v) == [raised |-> FALSE, value |-> v]
Raise(e) == [raised |-> TRUE, value |-> [exception |-> e]]

(***************************************************************************)
(* str.lower and the substring test `k in text`.                           *)
(***************************************************************************)
LowerMap ==
    [c \in {"A", "B", "C", "D", "E", "F", "G", "H", "I", "J", "K", "L", "M",
            "N", "O", "P", "Q", "R", "S", "T", "U", "V", "W", "X", "Y", "Z"} |->
        CASE c = "A" -> "a" [] c = "B" -> "b" [] c = "C" -> "c" [] c = "D" -> "d"
          [] c = "E" -> "e" [] c = "F" -> "f" [] c = "G" -> "g" [] c = "H" -> "h"
          [] c = "I" -> "i" [] c = "J" -> "j" [] c = "K" -> "k" [] c = "L" -> "l"
          [] c = "M" -> "m" [] c = "N" -> "n" [] c = "O" -> "o" [] c = "P" -> "p"
          [] c = "Q" -> "q" [] c = "R" -> "r" [] c = "S" -> "s" [] c = "T" -> "t"
          [] c = "U" -> "u" [] c = "V" -> "v" [] c = "W" -> "w" [] c = "X" -> "x"
          [] c = "Y" -> "y" [] c = "Z" -> "z"]

\* Mutant of lower: the corpus is not lower-cased.
lower_omitted(s) == s

RECURSIVE lower(_)
lower(s) ==
    IF s = "" THEN ""
    ELSE LET c == SubSeq(s, 1, 1)
         IN (IF c \in DOMAIN LowerMap THEN LowerMap[c] ELSE c)
                \o lower(SubSeq(s, 2, Len(s)))

contains(k, text) ==
    \E i \in 1..(Len(text) - Len(k) + 1) : SubSeq(text, i, i + Len(k) - 1) = k

\* f"{mod_name} {mod_description} {creator}".lower(): whether building it
\* raises, and the text it yields.
corpus_raises(mod_name, mod_description, creator) ==
    format_raises(mod_name) \/ format_raises(mod_description) \/ format_raises(creator)

corpus(mod_name, mod_description, creator) ==
    lower(format(mod_name) \o " " \o format(mod_description) \o " " \o format(creator))

\* any(k in text for k in keywords)
any_in(keywords, text) == \E i \in DOMAIN keywords : contains(keywords[i], text)

\* Mutant of round2: an exact tie is rounded up.
round2_half_up(num, den) == ((num * 100) + (den \div 2)) \div den

\* round(num / den, 2) in hundredths, for a value the float holds exactly:
\* Python rounds an exact tie to the even neighbour.
round2(num, den) ==
    LET q == (num * 100) \div den
        r == (num * 100) % den
    IN  IF 2 * r < den THEN q
        ELSE IF 2 * r > den THEN q + 1
        ELSE IF q % 2 = 0 THEN q ELSE q + 1

(***************************************************************************)
(* src/mod_classifier.py: the class attributes as declared.                *)
(***************************************************************************)
PRIORITY_FOLDER_MAP ==
    [p \in 0..5 |->
        CASE p = 0 -> "00 - Cosmetico"
          [] p = 1 -> "01 - Core"
          [] p = 2 -> "02 - Sistemas"
          [] p = 3 -> "03 - Gameplay"
          [] p = 4 -> "04 - Persistente"
          [] p = 5 -> "05 - Volatil"]

SUBCLASS_RULES ==
    << <<"inventory", "5B", "Utilitarios de Inventario e Gestao">>,
       <<"ui", "4A", "Ajustes de Interface">>,
       <<"framework", "1A", "Framework / Dependencia">>,
       <<"career", "2B", "Sistemas de Carreira">>,
       <<"trait", "3A", "Tracos e Personalidade">>,
       <<"aspiration", "3B", "Aspiracoes e Objetivos">>,
       <<"cas", "0A", "Itens CAS">> >>

CORE_KEYWORDS == <<"framework", "core", "library", "dependency">>
SYSTEM_KEYWORDS == <<"career", "pregnancy", "relationship", "calendar">>
GAMEPLAY_KEYWORDS == <<"interaction", "trait", "skill", "aspiration">>
COSMETIC_KEYWORDS == <<"cas", "hair", "clothing", "makeup">>

\* The class object: what self.<attribute> reads.
ModClassifierClass ==
    [PRIORITY_FOLDER_MAP |-> PRIORITY_FOLDER_MAP,
     SUBCLASS_RULES |-> SUBCLASS_RULES,
     CORE_KEYWORDS |-> CORE_KEYWORDS,
     SYSTEM_KEYWORDS |-> SYSTEM_KEYWORDS,
     GAMEPLAY_KEYWORDS |-> GAMEPLAY_KEYWORDS,
     COSMETIC_KEYWORDS |-> COSMETIC_KEYWORDS]

(***************************************************************************)
(* src/src/mod_classifier.py: the class attributes as declared.            *)
(***************************************************************************)
src_KEYWORD_PRIORITIES ==
    << <<"mccc", 0>>, <<"mc command center", 0>>, <<"ui cheats", 0>>,
       <<"better exceptions", 0>>, <<"basemental", 0>>,
       <<"gameplay", 1>>, <<"career", 1>>, <<"traits", 1>>, <<"aspiration", 1>>,
       <<"buff", 1>>, <<"interaction", 1>>,
       <<"autonomy", 2>>, <<"faster", 2>>, <<"improved", 2>>, <<"better", 2>>,
       <<"enhancement", 2>>,
       <<"cas", 3>>, <<"build", 3>>, <<"buy", 3>>, <<"animation", 3>>, <<"pose", 3>>,
       <<"clothing", 4>>, <<"hair", 4>>, <<"skin", 4>>, <<"makeup", 4>>,
       <<"accessory", 4>>, <<"decoration", 4>> >>

src_PRIORITY_FOLDER_MAP ==
    [p \in 0..4 |->
        CASE p = 0 -> "00 - Must Have"
          [] p = 1 -> "01 - Core Gameplay"
          [] p = 2 -> "02 - Quality of Life"
          [] p = 3 -> "03 - Enhancements"
          [] p = 4 -> "04 - Optional/Aesthetic"]

src_ModClassifierClass ==
    [KEYWORD_PRIORITIES |-> src_KEYWORD_PRIORITIES,
     PRIORITY_FOLDER_MAP |-> src_PRIORITY_FOLDER_MAP]

VARIABLES
    ModClassifier,      \* attributes of the class ModClassifier (src/mod_classifier.py)
    src_ModClassifier,  \* attributes of the class ModClassifier (src/src/mod_classifier.py)
    calls,              \* the calls of classify_mod made so far, with their outcomes
    ncalls,             \* how many calls were made
    batch,              \* the last call of classify_batch, with its outcome
    page,               \* the properties of the Notion page, as the API returns them
    notes_call,         \* the last call of append_to_notes, with what it did
    nappends,           \* how many calls of append_to_notes were made
    built,              \* the last call of _build_properties, with its result
    normalized,         \* the last URLs given to normalize_url, with the results
    searched,           \* the last call of NotionSearcher.search, with its API requests
    extracted,          \* the last call of extract_from_url, with its outcome
    extracted_batch,    \* the last call of extract_batch, with its outcome
    scored,             \* the last call of _score_to_priority, with its result
    estimated,          \* the last text given to the sub-score heuristics, with the results
    classified,         \* the calls of classify_mod on written corpora, with their outcomes
    appenders,          \* the concurrent calls of append_to_notes: where each is, its line, the Notes it is about to write
    page_before,        \* the Notion page when the concurrent calls began
    store_call,         \* the last call of get_page, create_page or update_page, with the API requests of its attempts
    runs                \* the runs of the Streamlit script in one session, each with what triggered it and what it did

classifierVars == <<ModClassifier, src_ModClassifier, calls, ncalls, batch>>
notesVars == <<page, notes_call, nappends>>
propsVars == <<built>>
urlVars == <<normalized, searched>>
extractVars == <<extracted, extracted_batch>>
rulerVars == <<scored, estimated>>
scoringVars == <<classified>>
raceVars == <<appenders, page_before>>
storeVars == <<store_call>>
appVars == <<runs>>
vars == <<classifierVars, notesVars, propsVars, urlVars, extractVars, rulerVars, scoringVars, raceVars, storeVars, appVars>>

(***************************************************************************)
(* src/mod_classifier.py: the heuristics.                                  *)
(***************************************************************************)
\* Mutant of _estimate_removal_impact: the result of the first call is kept
\* and answered again by the calls that follow (hidden state).
_estimate_removal_impact_memo(self, text) ==
    IF ncalls > 0 THEN 1
    ELSE IF any_in(self.CORE_KEYWORDS, text) THEN 4
    ELSE IF any_in(self.SYSTEM_KEYWORDS, text) THEN 3
    ELSE IF any_in(self.GAMEPLAY_KEYWORDS, text) THEN 2
    ELSE IF any_in(self.COSMETIC_KEYWORDS, text) THEN 0
    ELSE 1

\* Mutant of _estimate_removal_impact: the default is 0 instead of 1.
_estimate_removal_impact_default0(self, text) ==
    IF any_in(self.CORE_KEYWORDS, text) THEN 4
    ELSE IF any_in(self.SYSTEM_KEYWORDS, text) THEN 3
    ELSE IF any_in(self.GAMEPLAY_KEYWORDS, text) THEN 2
    ELSE 0

\* Mutant of _estimate_removal_impact: the cosmetic tier is tested first.
_estimate_removal_impact_cosmetic_first(self, text) ==
    IF any_in(self.COSMETIC_KEYWORDS, text) THEN 0
    ELSE IF any_in(self.CORE_KEYWORDS, text) THEN 4
    ELSE IF any_in(self.SYSTEM_KEYWORDS, text) THEN 3
    ELSE IF any_in(self.GAMEPLAY_KEYWORDS, text) THEN 2
    ELSE 1

\* Mutant of _estimate_removal_impact: the tiers that match add up.
_estimate_removal_impact_cumulative(self, text) ==
    LET sum == (IF any_in(self.CORE_KEYWORDS, text) THEN 4 ELSE 0)
                   + (IF any_in(self.SYSTEM_KEYWORDS, text) THEN 3 ELSE 0)
                   + (IF any_in(self.GAMEPLAY_KEYWORDS, text) THEN 2 ELSE 0)
    IN  IF sum > 0 THEN sum
        ELSE IF any_in(self.COSMETIC_KEYWORDS, text) THEN 0
        ELSE 1

_estimate_removal_impact(self, text) ==
    IF any_in(self.CORE_KEYWORDS, text) THEN 4
    ELSE IF any_in(self.SYSTEM_KEYWORDS, text) THEN 3
    ELSE IF any_in(self.GAMEPLAY_KEYWORDS, text) THEN 2
    ELSE IF any_in(self.COSMETIC_KEYWORDS, text) THEN 0
    ELSE 1

\* Mutant of _detect_framework: a system keyword counts as a framework too.
_detect_framework_system(self, text) ==
    IF any_in(self.CORE_KEYWORDS, text) \/ any_in(self.SYSTEM_KEYWORDS, text)
    THEN 1 ELSE 0

_detect_framework(self, text) ==
    IF any_in(self.CORE_KEYWORDS, text) THEN 1 ELSE 0

\* Mutant of _estimate_essentiality: a cosmetic keyword gives 0 and no
\* keyword gives 1, as for the removal impact.
_estimate_essentiality_cosmetic(self, text) ==
    IF any_in(self.CORE_KEYWORDS, text) THEN 3
    ELSE IF any_in(self.SYSTEM_KEYWORDS, text) THEN 2
    ELSE IF any_in(self.GAMEPLAY_KEYWORDS, text) THEN 1
    ELSE IF any_in(self.COSMETIC_KEYWORDS, text) THEN 0
    ELSE 1

_estimate_essentiality(self, text) ==
    IF any_in(self.CORE_KEYWORDS, text) THEN 3
    ELSE IF any_in(self.SYSTEM_KEYWORDS, text) THEN 2
    ELSE IF any_in(self.GAMEPLAY_KEYWORDS, text) THEN 1
    ELSE 0

\* Mutant of _score_to_priority: the thresholds are exclusive.
_score_to_priority_exclusive(score) ==
    IF score > 7 THEN 1
    ELSE IF score > 5 THEN 2
    ELSE IF score > 3 THEN 3
    ELSE IF score = 2 THEN 4
    ELSE 0

_score_to_priority(score) ==
    IF score >= 7 THEN 1
    ELSE IF score >= 5 THEN 2
    ELSE IF score >= 3 THEN 3
    ELSE IF score = 2 THEN 4
    ELSE 0

\* Mutant of _detect_subclass: the rule whose keyword occurs first in the
\* text wins, instead of the first rule of the list.
_detect_subclass_by_position(self, text) ==
    LET rules == self.SUBCLASS_RULES
        hits == {i \in DOMAIN rules : contains(rules[i][1], text)}
        at(i) == CHOOSE p \in 1..Len(text) :
                    /\ SubSeq(text, p, p + Len(rules[i][1]) - 1) = rules[i][1]
                    /\ \A q \in 1..(p - 1) :
                          SubSeq(text, q, q + Len(rules[i][1]) - 1) # rules[i][1]
    IN  IF hits = {} THEN None
        ELSE LET i == CHOOSE i \in hits : \A j \in hits : at(i) <= at(j)
             IN  Str(rules[i][2] \o " -- " \o rules[i][3])

_detect_subclass(self, text) ==
    LET rules == self.SUBCLASS_RULES
        hits == {i \in DOMAIN rules : contains(rules[i][1], text)}
    IN  IF hits = {} THEN None
        ELSE LET i == CHOOSE i \in hits : \A j \in hits : i <= j
             IN  Str(rules[i][2] \o " -- " \o rules[i][3])

\* Mutant of classify_mod_except: the folder is the literal of the other
\* version of the classifier instead of the map's entry.
classify_mod_except_literal(self, mod_name) ==
    IF format_raises(mod_name) THEN Raise("Exception")
    ELSE Return([priority |-> 4,
                 folder |-> "04 - Optional/Aesthetic",
                 confidence |-> [num |-> 0, den |-> 100],
                 score |-> 0,
                 notes_suffix |-> None,
                 mod_name |-> mod_name])

\* The except branch: the log line formats mod_name again, then the
\* documented default is returned.
classify_mod_except(self, mod_name) ==
    IF format_raises(mod_name) THEN Raise("Exception")
    ELSE Return([priority |-> 4,
                 folder |-> self.PRIORITY_FOLDER_MAP[4],
                 confidence |-> [num |-> 0, den |-> 100],
                 score |-> 0,
                 notes_suffix |-> None,
                 mod_name |-> mod_name])

classify_mod(self, mod_name, mod_description, creator) ==
    IF corpus_raises(mod_name, mod_description, creator)
    THEN classify_mod_except(self, mod_name)
    ELSE
        LET text == corpus(mod_name, mod_description, creator)
            removal == _estimate_removal_impact(self, text)
            framework == _detect_framework(self, text)
            essential == _estimate_essentiality(self, text)
            score == removal + framework + essential
            priority == _score_to_priority(score)
        IN  IF priority \notin DOMAIN self.PRIORITY_FOLDER_MAP
            THEN classify_mod_except(self, mod_name)    \* KeyError
            ELSE Return([priority |-> priority,
                         folder |-> self.PRIORITY_FOLDER_MAP[priority],
                         confidence |->
                            [num |-> round2(IF score <= 8 THEN score ELSE 8, 8),
                             den |-> 100],
                         score |-> score,
                         notes_suffix |-> _detect_subclass(self, text),
                         mod_name |-> mod_name])

(***************************************************************************)
(* src/src/mod_classifier.py                                               *)
(***************************************************************************)
src_detect_priority(self, text) ==
    LET kp == self.KEYWORD_PRIORITIES
        matches == {kp[i][2] : i \in {j \in DOMAIN kp : contains(kp[j][1], text)}}
    IN  IF matches # {}
        THEN CHOOSE m \in matches : \A n \in matches : m <= n
        ELSE 4

\* Mutant of src_calculate_confidence: the result is not clamped to 1.0.
src_calculate_confidence_unclamped(self, text, priority) ==
    LET kp == self.KEYWORD_PRIORITIES
        relevant_keywords == {i \in DOMAIN kp : kp[i][2] = priority}
        matches == Cardinality({i \in relevant_keywords : contains(kp[i][1], text)})
        len == Cardinality(relevant_keywords)
    IN  IF relevant_keywords = {} THEN [num |-> 1, den |-> 2]
        ELSE [num |-> matches * 2, den |-> len]

\* The confidence is the fraction num / den.
src_calculate_confidence(self, text, priority) ==
    LET kp == self.KEYWORD_PRIORITIES
        relevant_keywords == {i \in DOMAIN kp : kp[i][2] = priority}
        matches == Cardinality({i \in relevant_keywords : contains(kp[i][1], text)})
        len == Cardinality(relevant_keywords)
    IN  IF relevant_keywords = {} THEN [num |-> 1, den |-> 2]
        ELSE IF matches * 2 <= len THEN [num |-> matches * 2, den |-> len]
        ELSE [num |-> 1, den |-> 1]

src_classify_mod_except(self, mod_name) ==
    IF format_raises(mod_name) THEN Raise("Exception")
    ELSE Return([priority |-> 4,
                 folder |-> "04 - Optional/Aesthetic",
                 confidence |-> [num |-> 0, den |-> 1],
                 mod_name |-> mod_name])

src_classify_mod(self, mod_name, mod_description, creator) ==
    IF corpus_raises(mod_name, mod_description, creator)
    THEN src_classify_mod_except(self, mod_name)
    ELSE
        LET full_text == corpus(mod_name, mod_description, creator)
            detected_priority == src_detect_priority(self, full_text)
            folder == IF detected_priority \in DOMAIN self.PRIORITY_FOLDER_MAP
                      THEN self.PRIORITY_FOLDER_MAP[detected_priority]
                      ELSE "04 - Optional/Aesthetic"
        IN  Return([priority |-> detected_priority,
                    folder |-> folder,
                    confidence |-> src_calculate_confidence(self, full_text,
                                                            detected_priority),
                    mod_name |-> mod_name])

\* A dict, and mod.get(key, default).  Only a dict has the method get.
Dict(items) == [type |-> "dict", text |-> "{...}", items |-> items]
has_get(v) == v.type = "dict"
get(mod, key, default) ==
    IF key \in DOMAIN mod.items THEN mod.items[key] ELSE default

\* The loop of classify_batch from item i on, results holding the
\* classifications of the items before i.
RECURSIVE src_classify_batch_loop(_, _, _, _)
src_classify_batch_loop(self, mods, i, results) ==
    IF i > Len(mods) THEN Return(results)
    ELSE IF ~has_get(mods[i]) THEN Raise("AttributeError")
    ELSE LET name == get(mods[i], "name", Str(""))
             description == get(mods[i], "description", Str(""))
             creator == get(mods[i], "creator", Str(""))
             classification == src_classify_mod(self, name, description, creator)
         IN  IF classification.raised THEN classification
             ELSE src_classify_batch_loop(self, mods, i + 1,
                                          Append(results, classification.value))

src_classify_batch(self, mods) == src_classify_batch_loop(self, mods, 1, <<>>)

(***************************************************************************)
(* The arguments the callers are modelled to pass.                         *)
(***************************************************************************)
Names ==
    {Str("FRAMEWORK Mod"), Str("framework mod"), Str("inventory ui mod"),
     Str("xyz totally unrelated text"), Str("hair"), Str("Career Trait"),
     Unprintable}
Descriptions == {Str(""), Str("UI Inventory Hair"), Unprintable}
Creators == {Str("")}
SrcNames ==
    {Str("MCCC MC Command Center and UI Cheats"), Str("hair"),
     Str("xyz totally unrelated text"), Unprintable}
SrcDescriptions == {Str(""), Unprintable}

Mods ==
    {Dict([name |-> Str("UI Cheats Extension"), description |-> Str("better ui"),
           creator |-> Str("weerbesu")]),
     Dict([name |-> Str("new hair")]),
     Dict(<<>>),
     Str("not a mapping"),
     None}

RECURSIVE SeqsUpTo(_, _)
SeqsUpTo(S, n) ==
    IF n = 0 THEN {<<>>}
    ELSE LET shorter == SeqsUpTo(S, n - 1)
         IN  shorter \cup {Append(q, x) : q \in shorter, x \in S}

ClassifyMod ==
    /\ ncalls < MaxCalls
    /\ \E mod_name \in Names, mod_description \in Descriptions, creator \in Creators :
          calls' = calls \cup
              {[impl |-> "mod_classifier",
                args |-> <<mod_name, mod_description, creator>>,
                outcome |-> classify_mod(ModClassifier, mod_name,
                                         mod_description, creator)]}
    /\ ncalls' = ncalls + 1
    /\ UNCHANGED <<ModClassifier, src_ModClassifier, batch>>
    /\ UNCHANGED <<notesVars, propsVars, urlVars, extractVars, rulerVars, scoringVars,
                   raceVars, storeVars, appVars>>

SrcClassifyMod ==
    /\ ncalls < MaxCalls
    /\ \E mod_name \in SrcNames, mod_description \in SrcDescriptions,
          creator \in Creators :
          calls' = calls \cup
              {[impl |-> "src.mod_classifier",
                args |-> <<mod_name, mod_description, creator>>,
                outcome |-> src_classify_mod(src_ModClassifier, mod_name,
                                             mod_description, creator)]}
    /\ ncalls' = ncalls + 1
    /\ UNCHANGED <<ModClassifier, src_ModClassifier, batch>>
    /\ UNCHANGED <<notesVars, propsVars, urlVars, extractVars, rulerVars, scoringVars,
                   raceVars, storeVars, appVars>>

SrcClassifyBatch ==
    /\ ~batch.called
    /\ \E mods \in SeqsUpTo(Mods, MaxBatch) :
          batch' = [called |-> TRUE, mods |-> mods,
                    outcome |-> src_classify_batch(src_ModClassifier, mods)]
    /\ UNCHANGED <<ModClassifier, src_ModClassifier, calls, ncalls>>
    /\ UNCHANGED <<notesVars, propsVars, urlVars, extractVars, rulerVars, scoringVars,
                   raceVars, storeVars, appVars>>

(***************************************************************************)
(* src/notion_db_client.py: NotionClient.append_to_notes, and the Notion   *)
(* page it reads and writes.                                               *)
(*                                                                         *)
(* A page is the record of its properties.  A rich-text property holds a   *)
(* sequence of blocks; the text the property shows is the plain_text of    *)
(* its blocks one after the other, with nothing in between.                *)
(***************************************************************************)
MaxAppends == 3
stop_after_attempt == 3

\* sep.join(strings)
RECURSIVE join(_, _)
join(sep, strings) ==
    IF Len(strings) = 0 THEN ""
    ELSE IF Len(strings) = 1 THEN strings[1]
    ELSE strings[1] \o sep \o join(sep, Tail(strings))

\* text.split(sep), sep being one character
RECURSIVE split(_, _)
split(text, sep) ==
    LET at == {i \in 1..Len(text) : SubSeq(text, i, i) = sep}
    IN  IF at = {} THEN <<text>>
        ELSE LET i == CHOOSE i \in at : \A j \in at : i <= j
             IN  <<SubSeq(text, 1, i - 1)>>
                     \o split(SubSeq(text, i + 1, Len(text)), sep)

\* The text a rich-text property shows.
RECURSIVE plain_text(_)
plain_text(rich_text) ==
    IF rich_text = <<>> THEN ""
    ELSE rich_text[1].plain_text \o plain_text(Tail(rich_text))

\* client.pages.update(page_id, properties=...): the properties sent replace
\* the page's properties of the same name, the others stay; the API stores
\* a block sent as {"text": {"content": s}} and returns it with plain_text s.
pages_update(props, properties) ==
    [k \in DOMAIN props \cup DOMAIN properties |->
        IF k \in DOMAIN properties
        THEN IF k = "Notes"
             THEN [rich_text |->
                      [i \in 1..Len(properties[k].rich_text) |->
                          [plain_text |-> properties[k].rich_text[i].text.content]]]
             ELSE properties[k]
        ELSE props[k]]

\* The loop of append_to_notes over the blocks of Notes.
existing_lines(props) ==
    IF "Notes" \in DOMAIN props /\ props["Notes"].rich_text # <<>>
    THEN LET blocks == SelectSeq(props["Notes"].rich_text,
                                 LAMBDA block : block.plain_text # "")
         IN  [i \in 1..Len(blocks) |-> blocks[i].plain_text]
    ELSE <<>>

\* One run of the body of append_to_notes.  api is what the Notion API does
\* in this run: "ok", "retrieve_fails" (get_page raises after its own
\* retries) or "update_fails" (pages.update raises).
append_to_notes_body(props, extra_line, api) ==
    IF api = "retrieve_fails"
    THEN [raised |-> TRUE, wrote |-> FALSE, page |-> props]
    ELSE LET lines == existing_lines(props)
         IN  IF \E i \in 1..Len(lines) : lines[i] = extra_line
             THEN [raised |-> FALSE, wrote |-> FALSE, page |-> props]
             ELSE IF api = "update_fails"
             THEN [raised |-> TRUE, wrote |-> FALSE, page |-> props]
             ELSE LET new_notes == join("\n", Append(lines, extra_line))
                  IN  [raised |-> FALSE, wrote |-> TRUE,
                       page |-> pages_update(props,
                           [Notes |-> [rich_text |->
                               <<[text |-> [content |-> new_notes]]>>]])]

\* @retry(stop=stop_after_attempt(3)): the body runs again after a run that
\* raised, until a run returns or the last attempt raised.
RECURSIVE append_to_notes_retry(_, _, _, _)
append_to_notes_retry(props, extra_line, apis, attempt) ==
    LET run == append_to_notes_body(props, extra_line, apis[attempt])
    IN  IF run.raised /\ attempt < stop_after_attempt
        THEN append_to_notes_retry(run.page, extra_line, apis, attempt + 1)
        ELSE run

append_to_notes(props, extra_line, apis) ==
    append_to_notes_retry(props, extra_line, apis, 1)

\* The lines appended, and the pages append_to_notes may find.
ExtraLines == {"5B -- Inventario", "4A -- Interface", "Confianca: 80%"}
ApiOutcomes == {"ok", "retrieve_fails", "update_fails"}
Block(s) == [plain_text |-> s]
PagesBefore ==
    {[Nome |-> "Mod", Prioridade |-> "4"],
     [Nome |-> "Mod", Prioridade |-> "4", Notes |-> [rich_text |-> <<>>]],
     [Nome |-> "Mod", Prioridade |-> "4",
      Notes |-> [rich_text |-> <<Block("5B -- Inventario")>>]],
     [Nome |-> "Mod", Prioridade |-> "4",
      Notes |-> [rich_text |-> <<Block("Confianca: 80%\n5B -- Inventario")>>]],
     [Nome |-> "Mod", Prioridade |-> "4",
      Notes |-> [rich_text |-> <<Block("Testado em "), Block("2024")>>]]}

AppendToNotes ==
    /\ nappends < MaxAppends
    /\ \E extra_line \in ExtraLines,
          apis \in [1..stop_after_attempt -> ApiOutcomes] :
          LET run == append_to_notes(page, extra_line, apis)
          IN  /\ page' = run.page
              /\ notes_call' = [called |-> TRUE, extra_line |-> extra_line,
                                before |-> page, wrote |-> run.wrote,
                                raised |-> run.raised]
    /\ nappends' = nappends + 1
    /\ UNCHANGED <<classifierVars, propsVars, urlVars, extractVars, rulerVars,
                   scoringVars, raceVars, storeVars, appVars>>

(***************************************************************************)
(* urllib.parse as NotionSearcher.normalize_url uses it: urlparse,         *)
(* parse_qs and the str methods around them, computed on the text of the   *)
(* URL.                                                                    *)
(***************************************************************************)
Letters == DOMAIN LowerMap \cup {LowerMap[c] : c \in DOMAIN LowerMap}
scheme_chars ==
    Letters \cup {"0", "1", "2", "3", "4", "5", "6", "7", "8", "9", "+", "-", "."}

\* The first position of s holding one of chars, 0 if there is none.
find(s, chars) ==
    LET at == {i \in 1..Len(s) : SubSeq(s, i, i) \in chars}
    IN  IF at = {} THEN 0 ELSE CHOOSE i \in at : \A j \in at : i <= j

startswith(s, prefix) ==
    Len(s) >= Len(prefix) /\ SubSeq(s, 1, Len(prefix)) = prefix

\* s.replace(old, new): the occurrences of old from left to right, not
\* overlapping.
RECURSIVE replace(_, _, _)
replace(s, old, new) ==
    IF s = "" THEN ""
    ELSE IF startswith(s, old)
    THEN new \o replace(SubSeq(s, Len(old) + 1, Len(s)), old, new)
    ELSE SubSeq(s, 1, 1) \o replace(SubSeq(s, 2, Len(s)), old, new)

\* s.rstrip(c)
RECURSIVE rstrip(_, _)
rstrip(s, c) ==
    IF s # "" /\ SubSeq(s, Len(s), Len(s)) = c
    THEN rstrip(SubSeq(s, 1, Len(s) - 1), c)
    ELSE s

\* urlparse(url): the scheme is what precedes the first ":" when that is a
\* letter followed by scheme characters, and it is lower-cased; the netloc
\* follows "//" up to the next "/", "?" or "#"; then the fragment is cut at
\* the first "#" and the query at the first "?".
urlparse(url) ==
    LET cut_query(scheme, netloc, rest, fragment) ==
            LET q == find(rest, {"?"})
            IN  [scheme |-> scheme, netloc |-> netloc,
                 path |-> IF q = 0 THEN rest ELSE SubSeq(rest, 1, q - 1),
                 query |-> IF q = 0 THEN "" ELSE SubSeq(rest, q + 1, Len(rest)),
                 fragment |-> fragment]
        cut_fragment(scheme, netloc, rest) ==
            LET h == find(rest, {"#"})
            IN  cut_query(scheme, netloc,
                          IF h = 0 THEN rest ELSE SubSeq(rest, 1, h - 1),
                          IF h = 0 THEN "" ELSE SubSeq(rest, h + 1, Len(rest)))
        cut_netloc(scheme, rest) ==
            LET has_netloc == startswith(rest, "//")
                after == SubSeq(rest, 3, Len(rest))
                d == find(after, {"/", "?", "#"})
            IN  cut_fragment(scheme,
                             IF ~has_netloc THEN ""
                             ELSE IF d = 0 THEN after ELSE SubSeq(after, 1, d - 1),
                             IF ~has_netloc THEN rest
                             ELSE IF d = 0 THEN "" ELSE SubSeq(after, d, Len(after)))
        i == find(url, {":"})
        has_scheme == /\ i > 1
                      /\ SubSeq(url, 1, 1) \in Letters
                      /\ \A j \in 1..(i - 1) : SubSeq(url, j, j) \in scheme_chars
    IN  IF has_scheme
        THEN cut_netloc(lower(SubSeq(url, 1, i - 1)), SubSeq(url, i + 1, Len(url)))
        ELSE cut_netloc("", url)

\* unquote(s): a percent sign and two hexadecimal digits become the
\* character they encode.  The table holds the encodings that occur in the
\* URLs of this model.
PercentEncoded ==
    [e \in {"%26", "%3D", "%3d", "%25", "%20", "%2F", "%2f"} |->
        CASE e = "%26" -> "&"
          [] e \in {"%3D", "%3d"} -> "="
          [] e = "%25" -> "%"
          [] e = "%20" -> " "
          [] e \in {"%2F", "%2f"} -> "/"]

RECURSIVE unquote(_)
unquote(s) ==
    IF s = "" THEN ""
    ELSE IF Len(s) >= 3 /\ SubSeq(s, 1, 3) \in DOMAIN PercentEncoded
    THEN PercentEncoded[SubSeq(s, 1, 3)] \o unquote(SubSeq(s, 4, Len(s)))
    ELSE SubSeq(s, 1, 1) \o unquote(SubSeq(s, 2, Len(s)))

\* parse_qsl(qs): the fields between "&" that have a "=" and a value, name
\* and value with "+" turned into a space and then unquoted.
parse_qsl(qs) ==
    LET fields == split(qs, "&")
        kept == SelectSeq(fields,
                    LAMBDA f : LET e == find(f, {"="})
                               IN  e # 0 /\ e < Len(f))
    IN  [i \in 1..Len(kept) |->
            LET e == find(kept[i], {"="})
            IN  [name |-> unquote(replace(SubSeq(kept[i], 1, e - 1), "+", " ")),
                 value |-> unquote(replace(SubSeq(kept[i], e + 1, Len(kept[i])),
                                           "+", " "))]]

\* parse_qs(qs): the dict of the names, in the order of their first field,
\* each with the list of its values.
parse_qs(qs) ==
    LET pairs == parse_qsl(qs)
        first == {i \in 1..Len(pairs) :
                     \A j \in 1..(i - 1) : pairs[j].name # pairs[i].name}
        nth(n) == CHOOSE i \in first : Cardinality({j \in first : j <= i}) = n
    IN  [n \in 1..Cardinality(first) |->
            LET k == pairs[nth(n)].name
                mine == SelectSeq(pairs, LAMBDA p : p.name = k)
            IN  [key |-> k, values |-> [m \in 1..Len(mine) |-> mine[m].value]]]

(***************************************************************************)
(* src/notion_search.py: NotionSearcher.normalize_url                      *)
(***************************************************************************)
normalize_url(url) ==
    LET normalized_from(parsed) ==
            replace(lower(parsed.netloc), "www.", "") \o rstrip(parsed.path, "/")
    IN  normalized_from(urlparse(url))

(***************************************************************************)
(* src/src/notion_search.py: NotionSearcher.normalize_url                  *)
(***************************************************************************)
src_tracking_params == {"utm_source", "utm_medium", "utm_campaign", "ref", "fbclid"}

src_normalize_url(url) ==
    LET urlunparse(scheme, netloc, path, clean_query_str) ==
            scheme \o netloc \o path
                \o (IF clean_query_str # "" THEN "?" \o clean_query_str ELSE "")
        urlencode(clean_query) ==
            join("&", [i \in 1..Len(clean_query) |->
                          clean_query[i].key \o "=" \o clean_query[i].values[1]])
        cleaned(query_params) ==
            SelectSeq(query_params, LAMBDA kv : kv.key \notin src_tracking_params)
        normalized_from(parsed) ==
            urlunparse(IF parsed.scheme # "" THEN parsed.scheme \o "://" ELSE "",
                       replace(lower(parsed.netloc), "www.", ""),
                       rstrip(parsed.path, "/"),
                       urlencode(cleaned(parse_qs(parsed.query))))
    IN  normalized_from(urlparse(url))

(***************************************************************************)
(* The URLs given to normalize_url.  A URL is written from a scheme, a     *)
(* host, a path and a query; its variant is the same URL written with      *)
(* some of: the scheme in capitals, the host in another letter case, "www."*)
(* before the host, one more "/" after the path, one more tracking         *)
(* parameter in the query.                                                 *)
(***************************************************************************)
UrlParts ==
    [scheme |-> {"http", "https"},
     host |-> {"example.com", "www.mods.example.com", "localhost:8000"},
     path |-> {"", "/Path", "/mods/Path/"},
     query |-> {"", "id=1", "q=a%26ref%3D1&utm_source=feed"},
     tracking |-> {"", "utm_source=x", "utm_medium=social", "utm_campaign=mods",
                   "utm_term=x", "utm_content=banner", "ref=home", "fbclid=abc"},
     differences |-> SUBSET {"scheme case", "host case", "www", "trailing slash"}]

write_url(scheme, host, path, query) ==
    scheme \o "://" \o host \o path \o (IF query = "" THEN "" ELSE "?" \o query)

variant_url(scheme, host, path, query, differences, tracking) ==
    LET in_capitals == IF scheme = "http" THEN "HTTP" ELSE "HTTPS"
        in_other_case == CASE host = "example.com" -> "Example.com"
                           [] host = "www.mods.example.com" -> "WWW.Mods.Example.COM"
                           [] host = "localhost:8000" -> "LocalHost:8000"
        s == IF "scheme case" \in differences THEN in_capitals ELSE scheme
        h0 == IF "host case" \in differences THEN in_other_case ELSE host
        h == IF "www" \notin differences THEN h0
             ELSE IF "host case" \in differences THEN "WWW." \o h0
             ELSE "www." \o h0
        p == IF "trailing slash" \in differences THEN path \o "/" ELSE path
        q == IF tracking = "" THEN query
             ELSE IF query = "" THEN tracking
             ELSE query \o "&" \o tracking
    IN  write_url(s, h, p, q)

\* normalize_url applied to a URL, to its variant, and to its own result.
NormalizeUrl ==
    /\ ~normalized.called
    /\ \E scheme \in UrlParts.scheme, host \in UrlParts.host,
          path \in UrlParts.path, query \in UrlParts.query,
          differences \in UrlParts.differences, tracking \in UrlParts.tracking :
          LET call(url, variant, result) ==
                  [called |-> TRUE, impl |-> "notion_search",
                   url |-> url, variant |-> variant, result |-> result,
                   variant_result |-> normalize_url(variant),
                   result_again |-> normalize_url(result)]
              of(url) ==
                  call(url,
                       variant_url(scheme, host, path, query, differences, tracking),
                       normalize_url(url))
          IN  normalized' = of(write_url(scheme, host, path, query))
    /\ UNCHANGED <<classifierVars, notesVars, propsVars, searched, extractVars,
                   rulerVars, scoringVars, raceVars, storeVars, appVars>>

SrcNormalizeUrl ==
    /\ ~normalized.called
    /\ \E scheme \in UrlParts.scheme, host \in UrlParts.host,
          path \in UrlParts.path, query \in UrlParts.query,
          differences \in UrlParts.differences, tracking \in UrlParts.tracking :
          LET call(url, variant, result) ==
                  [called |-> TRUE, impl |-> "src.notion_search",
                   url |-> url, variant |-> variant, result |-> result,
                   variant_result |-> src_normalize_url(variant),
                   result_again |-> src_normalize_url(result)]
              of(url) ==
                  call(url,
                       variant_url(scheme, host, path, query, differences, tracking),
                       src_normalize_url(url))
          IN  normalized' = of(write_url(scheme, host, path, query))
    /\ UNCHANGED <<classifierVars, notesVars, propsVars, searched, extractVars,
                   rulerVars, scoringVars, raceVars, storeVars, appVars>>

(***************************************************************************)
(* NotionSearcher.search, search_by_url and fuzzy_search of both versions, *)
(* with the Notion database they query.  A call is modelled with the       *)
(* requests it sends, in the order it sends them, and `fails` is the set   *)
(* of requests that raise in that call.                                    *)
(***************************************************************************)
Database ==
    <<[id |-> "page-1", Nome |-> "UI Cheats Extension", Criador |-> "weerbesu",
       Link |-> "https://example.com/mods/ui-cheats",
       Pasta |-> Str("04 - Persistente"), Prioridade |-> Str("4")],
      [id |-> "page-2", Nome |-> "Better Exceptions", Criador |-> "TwistedMexi",
       Link |-> "http://www.mods.example.com/Path", Pasta |-> None,
       Prioridade |-> None],
      [id |-> "page-3", Nome |-> "UI Cheats Extension (old)", Criador |-> "",
       Link |-> "", Pasta |-> None, Prioridade |-> Str("0")]>>

Request(api, property, op, values) ==
    [api |-> api, property |-> property, op |-> op, values |-> values]

\* The pages a query of the database returns, in the order of the database.
query_results(property, op, values) ==
    SelectSeq(Database,
        LAMBDA p : \E i \in 1..Len(values) :
            IF op = "equals" THEN p[property] = values[i]
            ELSE contains(values[i], p[property]))

page_of(page_id) == CHOOSE p \in {Database[i] : i \in 1..Len(Database)} : p.id = page_id

\* results[:limit] of the API (page_size=limit)
first_n(results, limit) ==
    SubSeq(results, 1, IF Len(results) < limit THEN Len(results) ELSE limit)

(***************************************************************************)
(* src/notion_search.py                                                    *)
(***************************************************************************)
_safe_select(value) == value

search_by_url(mod_url, fails) ==
    LET answer(request, results) ==
            IF "url query" \in fails THEN [page_id |-> None, log |-> <<request>>]
            ELSE IF results # <<>>
            THEN [page_id |-> Str(results[1].id), log |-> <<request>>]
            ELSE [page_id |-> None, log |-> <<request>>]
        query_with(normalized_) ==
            answer(Request("databases.query", "Link", "contains", <<normalized_>>),
                   query_results("Link", "contains", <<normalized_>>))
    IN  query_with(normalize_url(mod_url))

fuzzy_limit == 10

fuzzy_search(query, limit, fails) ==
    LET answer(request, pages) ==
            IF "name query" \in fails THEN [results |-> <<>>, log |-> <<request>>]
            ELSE [results |->
                     [i \in 1..Len(pages) |->
                         [page_id |-> pages[i].id, name |-> pages[i].Nome,
                          creator |-> pages[i].Criador, url |-> pages[i].Link,
                          folder |-> _safe_select(pages[i].Pasta),
                          priority |-> _safe_select(pages[i].Prioridade)]],
                  log |-> <<request>>]
    IN  answer(Request("databases.query", "Nome", "contains", <<query>>),
               first_n(query_results("Nome", "contains", <<query>>), limit))

\* Mutant of search: a page whose details cannot be retrieved sends the
\* query on to the name search.
search_falls_back(query, fails) ==
    LET by_name(fuzzy) ==
            [results |-> fuzzy.results, log |-> fuzzy.log, page_id |-> None]
        fallen_back(found, retrieve, fuzzy) ==
            [results |-> fuzzy.results,
             log |-> found.log \o <<retrieve>> \o fuzzy.log,
             page_id |-> found.page_id]
        retrieved(found, retrieve, props) ==
            IF "retrieve" \in fails
            THEN fallen_back(found, retrieve, fuzzy_search(query, fuzzy_limit, fails))
            ELSE [results |->
                     <<[page_id |-> found.page_id.text, name |-> props.Nome,
                        creator |-> props.Criador, url |-> props.Link,
                        folder |-> _safe_select(props.Pasta),
                        priority |-> _safe_select(props.Prioridade)]>>,
                  log |-> found.log \o <<retrieve>>,
                  page_id |-> found.page_id]
        by_url(found) ==
            IF found.page_id = None
            THEN [results |-> <<>>, log |-> found.log, page_id |-> None]
            ELSE retrieved(found,
                           Request("pages.retrieve", "", "", <<found.page_id.text>>),
                           page_of(found.page_id.text))
    IN  IF startswith(query, "http")
        THEN by_url(search_by_url(query, fails))
        ELSE by_name(fuzzy_search(query, fuzzy_limit, fails))

search(query, fails) ==
    LET by_name(fuzzy) ==
            [results |-> fuzzy.results, log |-> fuzzy.log, page_id |-> None]
        retrieved(found, retrieve, props) ==
            IF "retrieve" \in fails
            THEN [results |-> <<>>, log |-> found.log \o <<retrieve>>,
                  page_id |-> found.page_id]
            ELSE [results |->
                     <<[page_id |-> found.page_id.text, name |-> props.Nome,
                        creator |-> props.Criador, url |-> props.Link,
                        folder |-> _safe_select(props.Pasta),
                        priority |-> _safe_select(props.Prioridade)]>>,
                  log |-> found.log \o <<retrieve>>,
                  page_id |-> found.page_id]
        by_url(found) ==
            IF found.page_id = None
            THEN [results |-> <<>>, log |-> found.log, page_id |-> None]
            ELSE retrieved(found,
                           Request("pages.retrieve", "", "", <<found.page_id.text>>),
                           page_of(found.page_id.text))
    IN  IF startswith(query, "http")
        THEN by_url(search_by_url(query, fails))
        ELSE by_name(fuzzy_search(query, fuzzy_limit, fails))

(***************************************************************************)
(* src/src/notion_search.py                                                *)
(***************************************************************************)
src_search_by_url(mod_url, fails) ==
    LET answer(exact, exact_results, partial, partial_results) ==
            IF "url query" \in fails THEN [page_id |-> None, log |-> <<exact>>]
            ELSE IF exact_results # <<>>
            THEN [page_id |-> Str(exact_results[1].id), log |-> <<exact>>]
            ELSE IF "second url query" \in fails
            THEN [page_id |-> None, log |-> <<exact, partial>>]
            ELSE IF partial_results # <<>>
            THEN [page_id |-> Str(partial_results[1].id), log |-> <<exact, partial>>]
            ELSE [page_id |-> None, log |-> <<exact, partial>>]
        query_partial(exact, exact_results, without_params) ==
            answer(exact, exact_results,
                   Request("data_sources.query", "Link", "contains", <<without_params>>),
                   query_results("Link", "contains", <<without_params>>))
        query_exact(normalized_url) ==
            query_partial(Request("data_sources.query", "Link", "equals",
                                  <<mod_url, normalized_url>>),
                          query_results("Link", "equals", <<mod_url, normalized_url>>),
                          split(normalized_url, "?")[1])
    IN  query_exact(src_normalize_url(mod_url))

src_fuzzy_limit == 5

src_fuzzy_search(query, limit, fails) ==
    LET answer(request, pages) ==
            IF "name query" \in fails THEN [results |-> <<>>, log |-> <<request>>]
            ELSE [results |->
                     [i \in 1..Len(pages) |->
                         [page_id |-> pages[i].id, name |-> pages[i].Nome,
                          creator |-> pages[i].Criador, url |-> pages[i].Link]],
                  log |-> <<request>>]
    IN  answer(Request("data_sources.query", "Nome", "contains", <<query>>),
               first_n(query_results("Nome", "contains", <<query>>), limit))

\* properties[...]['select']['name'] if the select is set, else ""
src_select_name(value) == IF value = None THEN Str("") ELSE value

src_search(query, fails) ==
    LET by_name(found, fuzzy) ==
            [results |-> fuzzy.results, log |-> found.log \o fuzzy.log,
             page_id |-> None]
        retrieved(found, retrieve, properties) ==
            IF "retrieve" \in fails
            THEN [results |-> <<>>, log |-> found.log \o <<retrieve>>,
                  page_id |-> found.page_id]
            ELSE [results |->
                     <<[page_id |-> found.page_id.text, name |-> properties.Nome,
                        creator |-> properties.Criador, url |-> properties.Link,
                        folder |-> src_select_name(properties.Pasta),
                        priority |-> src_select_name(properties.Prioridade)]>>,
                  log |-> found.log \o <<retrieve>>,
                  page_id |-> found.page_id]
        answer(found) ==
            IF found.page_id # None
            THEN retrieved(found,
                           Request("pages.retrieve", "", "", <<found.page_id.text>>),
                           page_of(found.page_id.text))
            ELSE by_name(found, src_fuzzy_search(query, src_fuzzy_limit, fails))
    IN  answer(IF startswith(query, "http://") \/ startswith(query, "https://")
               THEN src_search_by_url(query, fails)
               ELSE [page_id |-> None, log |-> <<>>])

SearchQueries ==
    {"https://example.com/mods/ui-cheats/?utm_source=x",
     "http://mods.example.com/Path/",
     "https://example.com/unknown-mod",
     "HTTP://WWW.Example.com/mods/ui-cheats",
     "UI Cheats", "Wonderful Whims", "httpie helper"}
RequestKinds == {"url query", "second url query", "retrieve", "name query"}

Search ==
    /\ ~searched.called
    /\ \E query \in SearchQueries, fails \in SUBSET RequestKinds :
          LET call(r) == [called |-> TRUE, impl |-> "notion_search",
                          query |-> query, fails |-> fails, log |-> r.log,
                          page_id |-> r.page_id, results |-> r.results]
          IN  searched' = call(search(query, fails))
    /\ UNCHANGED <<classifierVars, notesVars, propsVars, normalized, extractVars,
                   rulerVars, scoringVars, raceVars, storeVars, appVars>>

SrcSearch ==
    /\ ~searched.called
    /\ \E query \in SearchQueries, fails \in SUBSET RequestKinds :
          LET call(r) == [called |-> TRUE, impl |-> "src.notion_search",
                          query |-> query, fails |-> fails, log |-> r.log,
                          page_id |-> r.page_id, results |-> r.results]
          IN  searched' = call(src_search(query, fails))
    /\ UNCHANGED <<classifierVars, notesVars, propsVars, normalized, extractVars,
                   rulerVars, scoringVars, raceVars, storeVars, appVars>>

(***************************************************************************)
(* NotionClient._build_properties of both versions.                        *)
(***************************************************************************)
\* str(n) of an int n >= 0, and the int as a Python value.
DecimalDigits == <<"0", "1", "2", "3", "4", "5", "6", "7", "8", "9">>
RECURSIVE str_int(_)
str_int(n) ==
    IF n < Len(DecimalDigits) THEN DecimalDigits[n + 1]
    ELSE str_int(n \div Len(DecimalDigits)) \o DecimalDigits[(n % Len(DecimalDigits)) + 1]
PyInt(n) == [type |-> "int", text |-> str_int(n)]

\* bool(v) of a str, an int or None; str(v); isinstance(v, int)
truthy(v) ==
    /\ v # None
    /\ ~(v.type = "str" /\ v.text = "")
    /\ ~(v.type = "int" /\ v.text = "0")
str(v) == Str(v.text)
is_int(v) == v.type = "int"

\* The property objects of the Notion API.
title_of(content) == [title |-> <<[text |-> [content |-> content]]>>]
rich_text_of(content) == [rich_text |-> <<[text |-> [content |-> content]]>>]
url_of(url) == [url |-> url]
select_of(name) == [select |-> [name |-> name]]

(***************************************************************************)
(* src/notion_db_client.py                                                 *)
(***************************************************************************)
\* Mutant of _build_properties: the priority is tested for truth like the
\* other fields.
_build_properties_priority_truthy(props) ==
    LET included ==
            {k \in {"Nome", "Criador", "Link", "Prioridade", "Pasta", "Notes"} :
                CASE k = "Nome" -> truthy(get(props, "name", None))
                  [] k = "Criador" -> truthy(get(props, "creator", None))
                  [] k = "Link" -> truthy(get(props, "url", None))
                  [] k = "Prioridade" -> truthy(get(props, "priority", None))
                  [] k = "Pasta" -> truthy(get(props, "folder", None))
                  [] k = "Notes" -> truthy(get(props, "notes", None))}
    IN  [k \in included |->
            CASE k = "Nome" -> title_of(props.items["name"])
              [] k = "Criador" -> rich_text_of(props.items["creator"])
              [] k = "Link" -> url_of(props.items["url"])
              [] k = "Prioridade" -> select_of(str(props.items["priority"]))
              [] k = "Pasta" -> select_of(props.items["folder"])
              [] k = "Notes" -> rich_text_of(props.items["notes"])]

_build_properties(props) ==
    LET included ==
            {k \in {"Nome", "Criador", "Link", "Prioridade", "Pasta", "Notes"} :
                CASE k = "Nome" -> truthy(get(props, "name", None))
                  [] k = "Criador" -> truthy(get(props, "creator", None))
                  [] k = "Link" -> truthy(get(props, "url", None))
                  [] k = "Prioridade" -> get(props, "priority", None) # None
                  [] k = "Pasta" -> truthy(get(props, "folder", None))
                  [] k = "Notes" -> truthy(get(props, "notes", None))}
    IN  [k \in included |->
            CASE k = "Nome" -> title_of(props.items["name"])
              [] k = "Criador" -> rich_text_of(props.items["creator"])
              [] k = "Link" -> url_of(props.items["url"])
              [] k = "Prioridade" -> select_of(str(props.items["priority"]))
              [] k = "Pasta" -> select_of(props.items["folder"])
              [] k = "Notes" -> rich_text_of(props.items["notes"])]

(***************************************************************************)
(* src/src/notion_client.py                                                *)
(***************************************************************************)
src_FOLDER_MAP ==
    [f \in 1..5 |->
        CASE f = 1 -> "00 - Must Have"
          [] f = 2 -> "01 - Core Gameplay"
          [] f = 3 -> "02 - Quality of Life"
          [] f = 4 -> "03 - Enhancements"
          [] f = 5 -> "04 - Optional/Aesthetic"]

src_has_value(value) == value # None /\ value # Str("")

src_build_properties(props) ==
    LET included ==
            {k \in {"Nome", "Criador", "Link", "Prioridade", "Pasta", "Notes"} :
                CASE k = "Nome" -> src_has_value(get(props, "name", None))
                  [] k = "Criador" -> src_has_value(get(props, "creator", None))
                  [] k = "Link" -> src_has_value(get(props, "url", None))
                  [] k = "Prioridade" -> src_has_value(get(props, "priority", None))
                  [] k = "Pasta" -> src_has_value(get(props, "folder", None))
                  [] k = "Notes" -> src_has_value(get(props, "notes", None))}
        folder == props.items["folder"]
    IN  [k \in included |->
            CASE k = "Nome" -> title_of(props.items["name"])
              [] k = "Criador" -> rich_text_of(props.items["creator"])
              [] k = "Link" -> url_of(props.items["url"])
              [] k = "Prioridade" -> select_of(str(props.items["priority"]))
              [] k = "Pasta" ->
                    select_of(IF is_int(folder)
                              THEN IF \E f \in DOMAIN src_FOLDER_MAP : folder = PyInt(f)
                                   THEN Str(src_FOLDER_MAP[
                                            CHOOSE f \in DOMAIN src_FOLDER_MAP :
                                                folder = PyInt(f)])
                                   ELSE Str("04 - Optional/Aesthetic")
                              ELSE folder)
              [] k = "Notes" -> rich_text_of(props.items["notes"])]

\* The dicts given to _build_properties: each field is absent, None or a
\* value.
Absent == [type |-> "absent", text |-> ""]
FolderLabels ==
    {PRIORITY_FOLDER_MAP[p] : p \in DOMAIN PRIORITY_FOLDER_MAP}
        \cup {src_PRIORITY_FOLDER_MAP[p] : p \in DOMAIN src_PRIORITY_FOLDER_MAP}
PropValues ==
    [name |-> {Absent, None, Str(""), Str("UI Cheats Extension")},
     priority |-> {Absent, None} \cup {PyInt(p) : p \in DOMAIN PRIORITY_FOLDER_MAP},
     folder |-> {Absent, None, Str(""), PyInt(3)}
                    \cup {Str(label) : label \in FolderLabels},
     notes |-> {Absent, Str("Confianca: 80%")}]

props_of(name, priority, folder, notes) ==
    LET given == [name |-> name, priority |-> priority, folder |-> folder,
                  notes |-> notes]
    IN  Dict([k \in {f \in DOMAIN given : given[f] # Absent} |-> given[k]])

BuildProperties ==
    /\ ~built.called
    /\ \E name \in PropValues.name, priority \in PropValues.priority,
          folder \in PropValues.folder, notes \in PropValues.notes :
          LET props == props_of(name, priority, folder, notes)
          IN  built' = [called |-> TRUE, impl |-> "notion_db_client",
                        props |-> props, result |-> _build_properties(props)]
    /\ UNCHANGED <<classifierVars, notesVars, urlVars, extractVars, rulerVars,
                   scoringVars, raceVars, storeVars, appVars>>

SrcBuildProperties ==
    /\ ~built.called
    /\ \E name \in PropValues.name, priority \in PropValues.priority,
          folder \in PropValues.folder, notes \in PropValues.notes :
          LET props == props_of(name, priority, folder, notes)
          IN  built' = [called |-> TRUE, impl |-> "src.notion_client",
                        props |-> props, result |-> src_build_properties(props)]
    /\ UNCHANGED <<classifierVars, notesVars, urlVars, extractVars, rulerVars,
                   scoringVars, raceVars, storeVars, appVars>>

(***************************************************************************)
(* src/src/mod_extractor.py: ModExtractor.  A response is what the web     *)
(* gives for one request: the fetch fails, or it returns a page, given     *)
(* here by what BeautifulSoup finds in it; reading a page may raise.       *)
(***************************************************************************)
MaxUrls == 2

Whitespace == {" ", "\n", "\t"}

\* s.strip()
RECURSIVE strip(_)
strip(s) ==
    IF s = "" THEN ""
    ELSE IF SubSeq(s, 1, 1) \in Whitespace THEN strip(SubSeq(s, 2, Len(s)))
    ELSE IF SubSeq(s, Len(s), Len(s)) \in Whitespace
    THEN strip(SubSeq(s, 1, Len(s) - 1))
    ELSE s

\* re.sub(r'by\s+', '', text, flags=re.I)
RECURSIVE sub_by(_)
sub_by(text) ==
    IF text = "" THEN ""
    ELSE IF /\ Len(text) >= 3
            /\ lower(SubSeq(text, 1, 2)) = "by"
            /\ SubSeq(text, 3, 3) \in Whitespace
    THEN LET rest == SubSeq(text, 3, Len(text))
             blanks == CHOOSE n \in 1..Len(rest) :
                           /\ \A i \in 1..n : SubSeq(rest, i, i) \in Whitespace
                           /\ n = Len(rest) \/ SubSeq(rest, n + 1, n + 1) \notin Whitespace
         IN  sub_by(SubSeq(rest, blanks + 1, Len(rest)))
    ELSE SubSeq(text, 1, 1) \o sub_by(SubSeq(text, 2, Len(text)))

\* What soup.find returns: an element with its text, or None.
Tag(text) == [found |-> TRUE, text |-> text]
NoTag == [found |-> FALSE, text |-> ""]

_extract_title(soup) ==
    LET title_tags == <<soup.h1, soup.title, soup.title_class>>
        good == {i \in 1..Len(title_tags) :
                    title_tags[i].found /\ strip(title_tags[i].text) # ""}
    IN  IF good = {} THEN ""
        ELSE strip(title_tags[CHOOSE i \in good : \A j \in good : i <= j].text)

_extract_description(soup) ==
    LET meta == IF soup.meta_description.found THEN soup.meta_description
                ELSE soup.og_description
        paragraphs == first_n(soup.p, 3)
        texts == [i \in 1..Len(paragraphs) |-> strip(paragraphs[i])]
        joined == join(" ", texts)
    IN  IF meta.found /\ meta.text # "" THEN meta.text
        ELSE IF paragraphs # <<>>
        THEN SubSeq(joined, 1, IF Len(joined) < 500 THEN Len(joined) ELSE 500)
        ELSE ""

_extract_creator(soup) ==
    LET creator_patterns == <<soup.author_class, soup.rel_author, soup.by_string>>
        cleaned(element) == strip(sub_by(strip(element.text)))
        good == {i \in 1..Len(creator_patterns) :
                    creator_patterns[i].found /\ cleaned(creator_patterns[i]) # ""}
    IN  IF good = {} THEN ""
        ELSE cleaned(creator_patterns[CHOOSE i \in good : \A j \in good : i <= j])

\* Whether the try block of extract_from_url raises: requests refuses a URL
\* without scheme, the request fails, raise_for_status raises for an error
\* status, reading the page raises.
extract_raises(url, response) ==
    \/ ~(startswith(url, "http://") \/ startswith(url, "https://"))
    \/ response.fetch # "ok"
    \/ response.soup.broken

\* Mutant of extract_from_url: the record of a failed extraction has no url.
extract_from_url_without_url(url, response) ==
    IF extract_raises(url, response)
    THEN Return([url |-> "", name |-> "", description |-> "", creator |-> ""])
    ELSE Return([url |-> url,
                 name |-> _extract_title(response.soup),
                 description |-> _extract_description(response.soup),
                 creator |-> _extract_creator(response.soup)])

extract_from_url(url, response) ==
    IF extract_raises(url, response)
    THEN Return([url |-> url, name |-> "", description |-> "", creator |-> ""])
    ELSE Return([url |-> url,
                 name |-> _extract_title(response.soup),
                 description |-> _extract_description(response.soup),
                 creator |-> _extract_creator(response.soup)])

\* The loop of extract_batch from URL i on.
RECURSIVE extract_batch_loop(_, _, _, _)
extract_batch_loop(urls, responses, i, results) ==
    IF i > Len(urls) THEN Return(results)
    ELSE LET mod_info == extract_from_url(urls[i], responses[i])
         IN  IF mod_info.raised THEN mod_info
             ELSE extract_batch_loop(urls, responses, i + 1,
                                     Append(results, mod_info.value))

extract_batch(urls, responses) == extract_batch_loop(urls, responses, 1, <<>>)

\* The URLs asked for and the responses of the web.
Urls ==
    {"https://example.com/mods/ui-cheats", "http://example.com/mods/hair",
     "not a url"}
Soup(h1, title, title_class, meta, og, p, author_class, rel_author, by_string, broken) ==
    [h1 |-> h1, title |-> title, title_class |-> title_class,
     meta_description |-> meta, og_description |-> og,
     p |-> p, author_class |-> author_class, rel_author |-> rel_author,
     by_string |-> by_string, broken |-> broken]
Soups ==
    {Soup(Tag(" UI Cheats Extension "), Tag("Mods"), NoTag,
          Tag("Enables cheats in the UI"), NoTag, <<"First.">>,
          Tag("by  weerbesu"), NoTag, NoTag, FALSE),
     Soup(Tag(""), Tag("New Hair | Mods"), Tag("Hair"),
          Tag(""), Tag("Not read"), <<" A ", "B", "C", "D">>,
          Tag("By "), Tag("Creator"), Tag("made by someone"), FALSE),
     Soup(NoTag, NoTag, Tag("Heading only"),
          NoTag, Tag("From og:description"), <<>>,
          NoTag, NoTag, Tag("Made BY\tAnother One"), FALSE),
     Soup(NoTag, NoTag, NoTag, NoTag, NoTag, <<>>, NoTag, NoTag, NoTag, FALSE),
     Soup(Tag("Page that cannot be read"), NoTag, NoTag, NoTag, NoTag, <<>>,
          NoTag, NoTag, NoTag, TRUE)}
EmptySoup == Soup(NoTag, NoTag, NoTag, NoTag, NoTag, <<>>, NoTag, NoTag, NoTag, FALSE)
Responses ==
    {[fetch |-> "ok", soup |-> soup] : soup \in Soups}
        \cup {[fetch |-> f, soup |-> EmptySoup] :
                 f \in {"connection error", "timeout", "http error"}}

ExtractFromUrl ==
    /\ ~extracted.called /\ ~extracted_batch.called
    /\ \E url \in Urls, response \in Responses :
          extracted' = [called |-> TRUE, url |-> url, response |-> response,
                        outcome |-> extract_from_url(url, response)]
    /\ UNCHANGED <<classifierVars, notesVars, propsVars, urlVars, extracted_batch,
                   rulerVars, scoringVars, raceVars, storeVars, appVars>>

ExtractBatch ==
    /\ ~extracted.called /\ ~extracted_batch.called
    /\ \E urls \in SeqsUpTo(Urls, MaxUrls) :
          \E responses \in [1..Len(urls) -> Responses] :
              extracted_batch' = [called |-> TRUE, urls |-> urls,
                                  responses |-> responses,
                                  outcome |-> extract_batch(urls, responses)]
    /\ UNCHANGED <<classifierVars, notesVars, propsVars, urlVars, extracted, rulerVars,
                   scoringVars, raceVars, storeVars, appVars>>

(***************************************************************************)
(* src/mod_classifier.py: the heuristics called on their own, with every   *)
(* score and with corpora written from chosen keywords of the four tiers.  *)
(***************************************************************************)
MaxScore == 8

Tiers == {"core", "system", "gameplay", "cosmetic"}
TierKeywords(self) ==
    [core |-> self.CORE_KEYWORDS, system |-> self.SYSTEM_KEYWORDS,
     gameplay |-> self.GAMEPLAY_KEYWORDS, cosmetic |-> self.COSMETIC_KEYWORDS]

\* What a corpus holds of one tier: nothing (choice 0), one keyword of the
\* tier, or all its keywords (the choice after the last keyword).
TierChoices == 0..5
tier_text(keywords, choice) ==
    IF choice = 0 THEN ""
    ELSE IF choice <= Len(keywords) THEN " " \o keywords[choice]
    ELSE " " \o join(" ", keywords)

\* The corpus of a mod, the lower tiers written first.
corpus_with(self, choices) ==
    "some mod" \o tier_text(TierKeywords(self).cosmetic, choices.cosmetic)
               \o tier_text(TierKeywords(self).gameplay, choices.gameplay)
               \o tier_text(TierKeywords(self).system, choices.system)
               \o tier_text(TierKeywords(self).core, choices.core)

ScoreToPriority ==
    /\ ~scored.called /\ ~estimated.called
    /\ \E score \in 0..MaxScore :
          scored' = [called |-> TRUE, score |-> score,
                     priority |-> _score_to_priority(score)]
    /\ UNCHANGED <<classifierVars, notesVars, propsVars, urlVars, extractVars,
                   estimated, scoringVars, raceVars, storeVars, appVars>>

EstimateText ==
    /\ ~scored.called /\ ~estimated.called
    /\ \E choices \in [Tiers -> TierChoices] :
          LET text == corpus_with(ModClassifier, choices)
          IN  estimated' =
                  [called |-> TRUE, text |-> text,
                   tiers |-> {t \in Tiers : choices[t] # 0},
                   removal_impact |-> _estimate_removal_impact(ModClassifier, text),
                   framework |-> _detect_framework(ModClassifier, text),
                   essentiality |-> _estimate_essentiality(ModClassifier, text)]
    /\ UNCHANGED <<classifierVars, notesVars, propsVars, urlVars, extractVars, scored,
                   scoringVars, raceVars, storeVars, appVars>>

(***************************************************************************)
(* src/mod_classifier.py: classify_mod called on corpora written from      *)
(* chosen keywords of the four tiers, once with any choice of keywords or  *)
(* with a description that cannot be formatted, and twice in a row.        *)
(***************************************************************************)
\* What a classified corpus holds of one tier: nothing (choice 0) or one
\* keyword of the tier.
KeywordChoices == 0..4
PairChoices == 0..1

classify_text(mod_name, mod_description, tiers) ==
    [args |-> <<mod_name, mod_description, Str("")>>, tiers |-> tiers,
     outcome |-> classify_mod(ModClassifier, mod_name, mod_description, Str(""))]

ClassifyCorpus ==
    /\ classified = <<>>
    /\ \/ \E choices \in [Tiers -> KeywordChoices] :
             classified' =
                 <<classify_text(Str(corpus_with(ModClassifier, choices)), Str(""),
                                 {t \in Tiers : choices[t] # 0})>>
       \/ classified' = <<classify_text(Str("some mod"), Unprintable, {})>>
    /\ UNCHANGED <<classifierVars, notesVars, propsVars, urlVars, extractVars,
                   rulerVars, raceVars, storeVars, appVars>>

ClassifyTwo ==
    /\ classified = <<>>
    /\ \E first \in [Tiers -> PairChoices], second \in [Tiers -> PairChoices] :
          classified' =
              <<classify_text(Str(corpus_with(ModClassifier, first)), Str(""),
                              {t \in Tiers : first[t] # 0}),
                classify_text(Str(corpus_with(ModClassifier, second)), Str(""),
                              {t \in Tiers : second[t] # 0})>>
    /\ UNCHANGED <<classifierVars, notesVars, propsVars, urlVars, extractVars,
                   rulerVars, raceVars, storeVars, appVars>>

(***************************************************************************)
(* src/notion_db_client.py: two calls of append_to_notes on one page, each *)
(* from its own thread.  A call sends two requests to the Notion API, the  *)
(* pages.retrieve of get_page and the pages.update; the requests of the    *)
(* two calls reach the API in any order.                                   *)
(***************************************************************************)
Appenders == {1, 2}

\* Both calls begin, each with its own line.
StartAppends ==
    /\ \A self \in Appenders : appenders[self].pc = "idle"
    /\ \E lines \in [Appenders -> ExtraLines] :
          /\ \A a, b \in Appenders : a # b => lines[a] # lines[b]
          /\ appenders' = [self \in Appenders |->
                              [pc |-> "get_page", extra_line |-> lines[self],
                               new_notes |-> "", wrote |-> FALSE]]
    /\ page_before' = page
    /\ UNCHANGED <<classifierVars, notesVars, propsVars, urlVars, extractVars,
                   rulerVars, scoringVars, storeVars, appVars>>

\* page = self.get_page(page_id) and the lines up to the request of the
\* update: the call returns if its line is among the existing lines, else it
\* holds the new text of Notes.
GetPage(self) ==
    /\ appenders[self].pc = "get_page"
    /\ LET lines == existing_lines(page)
           extra_line == appenders[self].extra_line
       IN  appenders' =
               [appenders EXCEPT ![self] =
                   IF \E i \in 1..Len(lines) : lines[i] = extra_line
                   THEN [@ EXCEPT !.pc = "returned"]
                   ELSE [@ EXCEPT !.pc = "pages_update",
                                  !.new_notes = join("\n", Append(lines, extra_line))]]
    /\ UNCHANGED <<classifierVars, notesVars, propsVars, urlVars, extractVars,
                   rulerVars, scoringVars, page_before, storeVars, appVars>>

\* self.client.pages.update(page_id, properties={"Notes": ...}) and the return.
PagesUpdate(self) ==
    /\ appenders[self].pc = "pages_update"
    /\ page' = pages_update(page,
                   [Notes |-> [rich_text |->
                       <<[text |-> [content |-> appenders[self].new_notes]]>>]])
    /\ appenders' = [appenders EXCEPT ![self] =
                        [@ EXCEPT !.pc = "returned", !.wrote = TRUE]]
    /\ UNCHANGED <<classifierVars, notes_call, nappends, propsVars, urlVars,
                   extractVars, rulerVars, scoringVars, page_before, storeVars, appVars>>

(***************************************************************************)
(* NotionClient.get_page, create_page and update_page of both versions,    *)
(* each under @retry(stop=stop_after_attempt(3), wait=wait_exponential()). *)
(* An attempt runs the body of the method once; the body sends one request *)
(* to the Notion API, which answers or raises.                             *)
(***************************************************************************)
\* Mutant of retry_stop: one more attempt is made.
retry_stop_one_later(attempt_number) == attempt_number > stop_after_attempt

\* stop_after_attempt(3): whether no attempt follows this one.
retry_stop(attempt_number) == attempt_number >= stop_after_attempt

\* The request the body of the method sends.
api_request(impl, method, argument) ==
    CASE method = "get_page" ->
            [api |-> "pages.retrieve", page_id |-> argument, properties |-> <<>>]
      [] method = "create_page" ->
            [api |-> "pages.create", page_id |-> None,
             properties |-> IF impl = "notion_db_client"
                            THEN _build_properties(argument)
                            ELSE src_build_properties(argument)]
      [] method = "update_page" ->
            [api |-> "pages.update", page_id |-> Str("page-1"),
             properties |-> IF impl = "notion_db_client"
                            THEN _build_properties(argument)
                            ELSE src_build_properties(argument)]

\* The methods, each with the arguments it is called with.
StoreArguments ==
    [get_page |-> {Str("page-1"), Str("page-2")},
     create_page |->
        {props_of(Str("UI Cheats Extension"), PyInt(4), Str("04 - Persistente"), Absent),
         props_of(Str("UI Cheats Extension"), PyInt(0), Absent, Str("Confianca: 80%")),
         props_of(Absent, None, Str(""), Absent)},
     update_page |->
        {props_of(Absent, PyInt(1), Str("01 - Core"), Absent),
         props_of(Absent, Absent, Absent, Str("Confianca: 80%")),
         props_of(Absent, Absent, Absent, Absent)}]

\* A caller calls one of the methods.
CallStore ==
    /\ store_call.status = "idle"
    /\ \E impl \in {"notion_db_client", "src.notion_client"}, method \in DOMAIN StoreArguments :
          \E argument \in StoreArguments[method] :
              store_call' = [status |-> "running", impl |-> impl, method |-> method,
                             argument |-> argument, attempt_number |-> 1,
                             requests |-> <<>>]
    /\ UNCHANGED <<classifierVars, notesVars, propsVars, urlVars, extractVars,
                   rulerVars, scoringVars, raceVars, appVars>>

\* One attempt: the body runs; it returns if the API answers, and if the
\* API raises the next attempt follows unless this one was the last, after
\* which the error goes to the caller.
Attempt ==
    /\ store_call.status = "running"
    /\ \E answer \in {"ok", "raises"} :
          LET sent == [request |-> api_request(store_call.impl, store_call.method,
                                               store_call.argument),
                       attempt_number |-> store_call.attempt_number,
                       answer |-> answer]
          IN  store_call' =
                  [store_call EXCEPT
                      !.requests = Append(@, sent),
                      !.status = IF answer = "ok" THEN "returned"
                                 ELSE IF retry_stop(store_call.attempt_number)
                                 THEN "raised"
                                 ELSE "running",
                      !.attempt_number =
                          IF answer = "ok" \/ retry_stop(store_call.attempt_number)
                          THEN @ ELSE @ + 1]
    /\ UNCHANGED <<classifierVars, notesVars, propsVars, urlVars, extractVars,
                   rulerVars, scoringVars, raceVars, appVars>>

(***************************************************************************)
(* src/streamlit_app.py: the tab "Novo Mod".  Every interaction with a     *)
(* widget runs the script from the top; st.text_input returns the text the *)
(* session holds, and st.button returns True only in the run that its own  *)
(* click triggered.  The credentials of st.secrets are configured.         *)
(***************************************************************************)
MaxRuns == 4

\* st.button(label) in a run triggered by `clicked`
button(label, clicked) == clicked = label

\* One run of lines 82-162 with the text of mod_url, the widget whose click
\* triggered the run and what the mod's site answers: the buttons the run
\* renders, what it extracted and the calls of create_page it made.
tab2(mod_url, clicked, response) ==
    LET nothing == [buttons |-> {"Extrair e Classificar"}, mod_info |-> None,
                    created |-> <<>>]
        save(mod_info, classification) ==
            IF button("Salvar no Notion", clicked)
            THEN <<Dict([name |-> Str(mod_info.name), url |-> Str(mod_info.url),
                         creator |-> Str(mod_info.creator),
                         priority |-> PyInt(classification.priority),
                         folder |-> Str(classification.folder),
                         notes |-> Str("Confianca: "
                                       \o str_int(round2(classification.confidence.num,
                                                         classification.confidence.den))
                                       \o "%")])>>
            ELSE <<>>
        classified_as(mod_info, classification) ==
            IF classification.raised
            THEN [buttons |-> {"Extrair e Classificar"}, mod_info |-> Dict(mod_info),
                  created |-> <<>>]
            ELSE [buttons |-> {"Extrair e Classificar", "Salvar no Notion"},
                  mod_info |-> Dict(mod_info),
                  created |-> save(mod_info, classification.value)]
        extracted_as(mod_info) ==
            IF mod_info.name # ""
            THEN classified_as(mod_info,
                     src_classify_mod(src_ModClassifier, Str(mod_info.name),
                                      Str(mod_info.description), Str(mod_info.creator)))
            ELSE [buttons |-> {"Extrair e Classificar"}, mod_info |-> Dict(mod_info),
                  created |-> <<>>]
    IN  IF button("Extrair e Classificar", clicked)
        THEN IF mod_url = "" THEN nothing
             ELSE extracted_as(extract_from_url(mod_url, response).value)
        ELSE nothing

\* What the session holds between runs: the text of mod_url and the buttons
\* on the screen.
mod_url_text == IF runs = <<>> THEN "" ELSE runs[Len(runs)].mod_url
on_screen == IF runs = <<>> THEN {"Extrair e Classificar"} ELSE runs[Len(runs)].buttons

AppInputs ==
    [mod_url |-> {"", "https://example.com/mods/ui-cheats", "not a url"},
     response |-> {r \in Responses :
                      \/ r.fetch = "connection error"
                      \/ r.fetch = "ok" /\ r.soup.h1.found /\ ~r.soup.broken
                      \/ r.fetch = "ok" /\ r.soup = EmptySoup}]

\* The run of the script that an interaction triggers.
rerun(mod_url, clicked, response) ==
    LET record(did) ==
            [mod_url |-> mod_url, clicked |-> clicked, response |-> response,
             buttons |-> did.buttons, mod_info |-> did.mod_info,
             created |-> did.created]
    IN  record(tab2(mod_url, clicked, response))

\* The user changes the text of mod_url.
EditUrl ==
    /\ Len(runs) < MaxRuns
    /\ \E mod_url \in AppInputs.mod_url :
          /\ mod_url # mod_url_text
          /\ runs' = Append(runs, rerun(mod_url, "mod_url", None))
    /\ UNCHANGED <<classifierVars, notesVars, propsVars, urlVars, extractVars,
                   rulerVars, scoringVars, raceVars, storeVars>>

\* The user clicks "Extrair e Classificar"; the mod's site answers the
\* request of the extractor, if the run sends one.
ClickExtract ==
    /\ Len(runs) < MaxRuns
    /\ \E response \in AppInputs.response :
          runs' = Append(runs, rerun(mod_url_text, "Extrair e Classificar",
                                     IF mod_url_text = "" THEN None ELSE response))
    /\ UNCHANGED <<classifierVars, notesVars, propsVars, urlVars, extractVars,
                   rulerVars, scoringVars, raceVars, storeVars>>

\* The user clicks "Salvar no Notion", which the last run rendered.
ClickSave ==
    /\ Len(runs) < MaxRuns
    /\ "Salvar no Notion" \in on_screen
    /\ runs' = Append(runs, rerun(mod_url_text, "Salvar no Notion", None))
    /\ UNCHANGED <<classifierVars, notesVars, propsVars, urlVars, extractVars,
                   rulerVars, scoringVars, raceVars, storeVars>>

(***************************************************************************)
(* The initial state and the specifications.                               *)
(***************************************************************************)

\* The state before any call; thepage is the Notion page as it is found.
InitWith(thepage) ==
    /\ ModClassifier = ModClassifierClass
    /\ src_ModClassifier = src_ModClassifierClass
    /\ calls = {}
    /\ ncalls = 0
    /\ batch = [called |-> FALSE, mods |-> <<>>, outcome |-> Return(<<>>)]
    /\ page = thepage
    /\ notes_call = [called |-> FALSE, extra_line |-> "", before |-> thepage,
                     wrote |-> FALSE, raised |-> FALSE]
    /\ nappends = 0
    /\ built = [called |-> FALSE, impl |-> "", props |-> Dict(<<>>), result |-> <<>>]
    /\ normalized = [called |-> FALSE, impl |-> "", url |-> "", variant |-> "",
                     result |-> "", variant_result |-> "", result_again |-> ""]
    /\ searched = [called |-> FALSE, impl |-> "", query |-> "", fails |-> {},
                   log |-> <<>>, page_id |-> None, results |-> <<>>]
    /\ extracted = [called |-> FALSE, url |-> "",
                    response |-> [fetch |-> "", soup |-> EmptySoup],
                    outcome |-> Return(<<>>)]
    /\ extracted_batch = [called |-> FALSE, urls |-> <<>>, responses |-> <<>>,
                          outcome |-> Return(<<>>)]
    /\ scored = [called |-> FALSE, score |-> 0, priority |-> 0]
    /\ estimated = [called |-> FALSE, text |-> "", tiers |-> {},
                    removal_impact |-> 0, framework |-> 0, essentiality |-> 0]
    /\ classified = <<>>
    /\ appenders = [self \in Appenders |->
                       [pc |-> "idle", extra_line |-> "", new_notes |-> "",
                        wrote |-> FALSE]]
    /\ page_before = thepage
    /\ store_call = [status |-> "idle", impl |-> "", method |-> "",
                     argument |-> None, attempt_number |-> 0, requests |-> <<>>]
    /\ runs = <<>>

Init == InitWith([Nome |-> "Mod", Prioridade |-> "4"])

\* append_to_notes finds a page whose Notes somebody has written before.
InitNotes == \E thepage \in PagesBefore : InitWith(thepage)

NextNotes == AppendToNotes

SpecNotes == InitNotes /\ [][NextNotes]_vars

NextUrl == NormalizeUrl \/ SrcNormalizeUrl

SpecUrl == Init /\ [][NextUrl]_vars

NextProps == BuildProperties \/ SrcBuildProperties

SpecProps == Init /\ [][NextProps]_vars

NextExtract == ExtractFromUrl \/ ExtractBatch

SpecExtract == Init /\ [][NextExtract]_vars

NextRuler == ScoreToPriority \/ EstimateText

SpecRuler == Init /\ [][NextRuler]_vars

NextSearch == Search \/ SrcSearch

SpecSearch == Init /\ [][NextSearch]_vars

Next == ClassifyMod \/ SrcClassifyMod

Spec == Init /\ [][Next]_vars

NextBatch == SrcClassifyBatch

SpecBatch == Init /\ [][NextBatch]_vars

NextScoring == ClassifyCorpus \/ ClassifyTwo

SpecScoring == Init /\ [][NextScoring]_vars

NextRace == StartAppends \/ \E self \in Appenders : GetPage(self) \/ PagesUpdate(self)

SpecRace == InitNotes /\ [][NextRace]_vars

NextStore == CallStore \/ Attempt

SpecStore == Init /\ [][NextStore]_vars

NextApp == EditUrl \/ ClickExtract \/ ClickSave

SpecApp == Init /\ [][NextApp]_vars

(***************************************************************************)
(* Properties.                                                             *)
(***************************************************************************)
V3Calls == {c \in calls : c.impl = "mod_classifier"}
SrcCalls == {c \in calls : c.impl = "src.mod_classifier"}
Returned(S) == {c \in S : ~c.outcome.raised}

\* The scoring step of the call fails: the try body raises.
ScoringFails(c) == corpus_raises(c.args[1], c.args[2], c.args[3])
Text(c) == corpus(c.args[1], c.args[2], c.args[3])

\* No keyword of any tier occurs in the text.
NoKeyword(text) ==
    /\ ~any_in(CORE_KEYWORDS, text)
    /\ ~any_in(SYSTEM_KEYWORDS, text)
    /\ ~any_in(GAMEPLAY_KEYWORDS, text)
    /\ ~any_in(COSMETIC_KEYWORDS, text)

\* Two strings that differ at most in the case of their letters.
SameButCase(s, t) ==
    /\ Len(s) = Len(t)
    /\ \A i \in 1..Len(s) :
          LET a == SubSeq(s, i, i)
              b == SubSeq(t, i, i)
          IN  \/ a = b
              \/ a \in DOMAIN LowerMap /\ LowerMap[a] = b
              \/ b \in DOMAIN LowerMap /\ LowerMap[b] = a

ArgsSameButCase(c, d) ==
    \A i \in 1..3 :
        /\ c.args[i].type = "str"
        /\ d.args[i].type = "str"
        /\ SameButCase(c.args[i].text, d.args[i].text)

\* C1 (as claimed): classify_mod of src/mod_classifier.py never propagates
\* an exception, and whenever the scoring step fails it returns exactly
\* priority 4, the folder of priority 4, confidence 0.0, score 0,
\* notes_suffix None and the given mod_name.
C1_NeverRaises ==
    \A c \in V3Calls :
        /\ ~c.outcome.raised
        /\ ScoringFails(c) =>
              c.outcome.value = [priority |-> 4,
                                 folder |-> PRIORITY_FOLDER_MAP[4],
                                 confidence |-> [num |-> 0, den |-> 100],
                                 score |-> 0,
                                 notes_suffix |-> None,
                                 mod_name |-> c.args[1]]

\* C2: every record classify_mod returns, on the normal path and on the
\* fallback path, in both versions of the classifier, has priority in 0..5
\* and confidence in [0.0, 1.0].
C2_PriorityAndConfidenceInRange ==
    \A c \in Returned(calls) :
        /\ c.outcome.value.priority \in 0..5
        /\ c.outcome.value.confidence.den > 0
        /\ 0 <= c.outcome.value.confidence.num
        /\ c.outcome.value.confidence.num <= c.outcome.value.confidence.den

\* Both versions have returned a record from the normal path and one from
\* the fallback path.
C2_Witness ==
    /\ \E c \in Returned(V3Calls) : ScoringFails(c)
    /\ \E c \in Returned(V3Calls) : ~ScoringFails(c) /\ c.outcome.value.priority = 1
    /\ \E c \in Returned(SrcCalls) :
          /\ ~ScoringFails(c)
          /\ c.outcome.value.confidence.num = c.outcome.value.confidence.den

\* C3: folder is a function of priority alone: two records returned by the
\* same classifier with the same priority have the same folder, which is
\* the PRIORITY_FOLDER_MAP entry of the priority.
C3_FolderFunctionOfPriority ==
    /\ \A c \in Returned(V3Calls) :
          /\ c.outcome.value.folder =
                ModClassifier.PRIORITY_FOLDER_MAP[c.outcome.value.priority]
          /\ \A d \in Returned(V3Calls) :
                c.outcome.value.priority = d.outcome.value.priority
                    => c.outcome.value.folder = d.outcome.value.folder
    /\ \A c \in Returned(SrcCalls) :
          /\ c.outcome.value.folder =
                src_ModClassifier.PRIORITY_FOLDER_MAP[c.outcome.value.priority]
          /\ \A d \in Returned(SrcCalls) :
                c.outcome.value.priority = d.outcome.value.priority
                    => c.outcome.value.folder = d.outcome.value.folder

\* Two records of the same priority from different inputs, one of them from
\* the fallback path, and a record of the fallback path of the ruler v3.0.
C3_Witness ==
    /\ \E c, d \in Returned(SrcCalls) :
          /\ ScoringFails(c) /\ ~ScoringFails(d)
          /\ c.outcome.value.priority = d.outcome.value.priority
    /\ \E c \in Returned(V3Calls) : ScoringFails(c)

\* C4 (as claimed): classify_batch of n items does not raise and returns
\* exactly n records, the i-th being the classification of the i-th item,
\* which is the fallback record when the item is not a mapping.
C4_BatchNeverRaises ==
    batch.called =>
        /\ ~batch.outcome.raised
        /\ Len(batch.outcome.value) = Len(batch.mods)
        /\ \A i \in 1..Len(batch.mods) :
              IF has_get(batch.mods[i])
              THEN Return(batch.outcome.value[i]) =
                      src_classify_mod(src_ModClassifier,
                                       get(batch.mods[i], "name", Str("")),
                                       get(batch.mods[i], "description", Str("")),
                                       get(batch.mods[i], "creator", Str("")))
              ELSE /\ batch.outcome.value[i].priority = 4
                   /\ batch.outcome.value[i].confidence.num = 0

\* C5 (as claimed): a returned record has confidence 0.0 only if the
\* fallback path produced it.
C5_ZeroConfidenceOnlyFallback ==
    \A c \in Returned(calls) :
        c.outcome.value.confidence.num = 0 => ScoringFails(c)

C7_NoKeywordConfidence0125 ==
    \A c \in V3Calls :
        ~ScoringFails(c) =>
            LET text == Text(c)
            IN  NoKeyword(text) =>
                    /\ ~c.outcome.raised
                    /\ _estimate_removal_impact(ModClassifier, text) = 1
                    /\ _detect_framework(ModClassifier, text) = 0
                    /\ _estimate_essentiality(ModClassifier, text) = 0
                    /\ c.outcome.value.score = 1
                    /\ c.outcome.value.priority = 0
                    /\ c.outcome.value.confidence.num * 1000
                          = 125 * c.outcome.value.confidence.den

\* C7 (amended): a corpus without any keyword gets removal impact 1,
\* framework 0, essentiality 0, score 1, priority 0 and confidence 0.12,
\* which is 1/8 rounded to two decimals.
C7_NoKeywordConfidence012 ==
    \A c \in V3Calls :
        ~ScoringFails(c) =>
            LET text == Text(c)
            IN  NoKeyword(text) =>
                    /\ ~c.outcome.raised
                    /\ _estimate_removal_impact(ModClassifier, text) = 1
                    /\ _detect_framework(ModClassifier, text) = 0
                    /\ _estimate_essentiality(ModClassifier, text) = 0
                    /\ c.outcome.value.score = 1
                    /\ c.outcome.value.priority = 0
                    /\ c.outcome.value.confidence.num * 100
                          = 12 * c.outcome.value.confidence.den

\* A corpus without any keyword was classified.
C7_Witness ==
    \E c \in Returned(V3Calls) : ~ScoringFails(c) /\ NoKeyword(Text(c))

\* C8: a corpus with a core keyword gets score 8, priority 1 and
\* confidence 1.0, whatever keywords of the other tiers it contains.
C8_CoreKeywordWins ==
    \A c \in V3Calls :
        (~ScoringFails(c) /\ any_in(CORE_KEYWORDS, Text(c))) =>
            /\ ~c.outcome.raised
            /\ c.outcome.value.score = 8
            /\ c.outcome.value.priority = 1
            /\ c.outcome.value.confidence.num = c.outcome.value.confidence.den

\* A corpus with a core keyword and a cosmetic keyword was classified.
C8_Witness ==
    \E c \in Returned(V3Calls) :
        /\ ~ScoringFails(c)
        /\ any_in(CORE_KEYWORDS, Text(c))
        /\ any_in(COSMETIC_KEYWORDS, Text(c))

\* C9: two calls whose arguments differ only in the case of letters return
\* the same score, priority, folder, confidence and notes_suffix.
C9_CaseInsensitive ==
    \A c, d \in Returned(V3Calls) :
        ArgsSameButCase(c, d) =>
            /\ c.outcome.value.score = d.outcome.value.score
            /\ c.outcome.value.priority = d.outcome.value.priority
            /\ c.outcome.value.folder = d.outcome.value.folder
            /\ c.outcome.value.confidence = d.outcome.value.confidence
            /\ c.outcome.value.notes_suffix = d.outcome.value.notes_suffix

\* Two calls whose arguments differ, and only in the case of letters, and
\* whose corpus has a keyword.
C9_Witness ==
    \E c, d \in Returned(V3Calls) :
        /\ c.args # d.args
        /\ ArgsSameButCase(c, d)
        /\ c.outcome.value.score = 8

\* C10: notes_suffix is the "CODE -- Label" string of the first rule of
\* SUBCLASS_RULES, in the order of the list, whose keyword occurs in the
\* corpus, and None when no rule's keyword occurs.
C10_FirstRuleWins ==
    \A c \in Returned(V3Calls) :
        ~ScoringFails(c) =>
            LET text == Text(c)
                hits == {i \in DOMAIN SUBCLASS_RULES :
                            contains(SUBCLASS_RULES[i][1], text)}
                notes == c.outcome.value.notes_suffix
            IN  /\ hits = {} => notes = None
                /\ \A i \in hits :
                      (\A j \in 1..(i - 1) : j \notin hits) =>
                          notes = Str(SUBCLASS_RULES[i][2] \o " -- "
                                        \o SUBCLASS_RULES[i][3])

\* A corpus in which "ui" occurs before "inventory" got the inventory label,
\* and a corpus without any rule keyword got None.
C10_Witness ==
    /\ \E c \in Returned(V3Calls) :
          /\ c.args[1] = Str("hair")
          /\ c.args[2] = Str("UI Inventory Hair")
          /\ c.outcome.value.notes_suffix =
                Str("5B -- Utilitarios de Inventario e Gestao")
    /\ \E c \in Returned(V3Calls) :
          ~ScoringFails(c) /\ c.outcome.value.notes_suffix = None


(***************************************************************************)
(* Properties of append_to_notes.                                          *)
(***************************************************************************)
NotesText(props) ==
    IF "Notes" \in DOMAIN props THEN plain_text(props["Notes"].rich_text) ELSE ""
NotesLines(props) ==
    IF NotesText(props) = "" THEN <<>> ELSE split(NotesText(props), "\n")
IsLineOf(line, props) ==
    \E i \in 1..Len(NotesLines(props)) : NotesLines(props)[i] = line

\* C11: appending never creates a duplicate line.  No line occurs twice in
\* Notes after any sequence of append_to_notes calls on a page whose Notes
\* had no repeated line, and a call with a line that is already a line of
\* Notes performs no write.
C11_NoDuplicateLine ==
    LET lines == NotesLines(page)
    IN  /\ \A i, j \in 1..Len(lines) : lines[i] = lines[j] => i = j
        /\ (notes_call.called /\ IsLineOf(notes_call.extra_line, notes_call.before))
               => ~notes_call.wrote

\* C12: append_to_notes preserves existing content.  Whenever a call with
\* line L writes, the new Notes text is the previous Notes text unchanged,
\* followed by a line break and L (just L if Notes was empty), whatever
\* number of blocks the previous Notes had, and the other properties are
\* left unchanged.
C12_AppendPreservesContent ==
    notes_call.wrote =>
        /\ NotesText(page) =
               IF NotesText(notes_call.before) = "" THEN notes_call.extra_line
               ELSE NotesText(notes_call.before) \o "\n" \o notes_call.extra_line
        /\ \A k \in DOMAIN notes_call.before :
               k # "Notes" => (k \in DOMAIN page /\ page[k] = notes_call.before[k])


(***************************************************************************)
(* Properties of normalize_url.                                            *)
(***************************************************************************)
\* C13: normalize_url maps two URLs to the same string whenever they
\* differ only in the letter case of the scheme, the letter case of the
\* host, a leading "www." on the host, a trailing slash on the path, or
\* the presence of a tracking query parameter (utm_*, ref, fbclid).
C13_VariantsHaveOneNormalForm ==
    normalized.called => normalized.variant_result = normalized.result

\* C14: URL normalization is idempotent: normalize_url applied to its own
\* result returns that result.
C14_Idempotent ==
    normalized.called => normalized.result_again = normalized.result


(***************************************************************************)
(* Properties of NotionSearcher.search.                                    *)
(***************************************************************************)
\* The query is one that search takes for a URL.
TakenForUrl(c) ==
    IF c.impl = "notion_search" THEN startswith(c.query, "http")
    ELSE startswith(c.query, "http://") \/ startswith(c.query, "https://")
IsUrlLookup(request) == request.property = "Link"
IsNameQuery(request) == request.property = "Nome"
IsRetrieve(request) == request.api = "pages.retrieve"
NameQueryIssued(c) == \E i \in 1..Len(c.log) : IsNameQuery(c.log[i])
RecordOf(c) ==
    LET p == page_of(c.page_id.text)
    IN  [page_id |-> p.id, name |-> p.Nome, creator |-> p.Criador, url |-> p.Link,
         folder |-> IF c.impl = "notion_search" THEN p.Pasta
                    ELSE src_select_name(p.Pasta),
         priority |-> IF c.impl = "notion_search" THEN p.Prioridade
                      ELSE src_select_name(p.Prioridade)]

OptionNames == <<"0", "1", "2", "3", "4", "5">>
PropertyOf ==
    [name |-> "Nome", creator |-> "Criador", url |-> "Link",
     priority |-> "Prioridade", folder |-> "Pasta", notes |-> "Notes"]

\* C16: _build_properties maps every priority p in 0..5, p = 0 included, to
\* the Prioridade select option named str(p), and every folder label to the
\* Pasta select option with exactly that label; a field that is absent or
\* None in the input produces no property in the output.
C16_PriorityAndFolderSelects ==
    built.called =>
        /\ \A p \in 0..5 :
               get(built.props, "priority", None) = PyInt(p) =>
                   /\ "Prioridade" \in DOMAIN built.result
                   /\ built.result["Prioridade"] =
                          [select |-> [name |-> Str(OptionNames[p + 1])]]
        /\ \A label \in FolderLabels :
               get(built.props, "folder", None) = Str(label) =>
                   /\ "Pasta" \in DOMAIN built.result
                   /\ built.result["Pasta"] = [select |-> [name |-> Str(label)]]
        /\ \A field \in DOMAIN PropertyOf :
               get(built.props, field, None) = None =>
                   PropertyOf[field] \notin DOMAIN built.result

\* Priority 0 was given, with a folder label and no name.
C16_Witness ==
    /\ built.called
    /\ get(built.props, "priority", None) = PyInt(0)
    /\ get(built.props, "folder", None) = Str("00 - Cosmetico")
    /\ get(built.props, "name", None) = None
    /\ DOMAIN built.result = {"Prioridade", "Pasta"}


(***************************************************************************)
(* Properties of ModExtractor.                                             *)
(***************************************************************************)
\* The record extract_from_url is to return for a URL and a response.
IsModInfo(record, url, response) ==
    /\ DOMAIN record = {"url", "name", "description", "creator"}
    /\ record.url = url
    /\ extract_raises(url, response) =>
           (record.name = "" /\ record.description = "" /\ record.creator = "")

\* C17: extract_from_url never raises.  For every URL and every outcome of
\* the fetch and the parse it returns a record with exactly the keys url,
\* name, description, creator, where url is the input URL, and on any
\* failure the three others are empty strings; extract_batch returns one
\* such record per input URL, in input order.
C17_ExtractNeverRaises ==
    /\ extracted.called =>
           /\ ~extracted.outcome.raised
           /\ IsModInfo(extracted.outcome.value, extracted.url, extracted.response)
    /\ extracted_batch.called =>
           /\ ~extracted_batch.outcome.raised
           /\ Len(extracted_batch.outcome.value) = Len(extracted_batch.urls)
           /\ \A i \in 1..Len(extracted_batch.urls) :
                  IsModInfo(extracted_batch.outcome.value[i],
                            extracted_batch.urls[i], extracted_batch.responses[i])

\* A batch of two URLs, the first failing and the second extracted.
C17_Witness ==
    /\ extracted_batch.called
    /\ Len(extracted_batch.urls) = 2
    /\ extract_raises(extracted_batch.urls[1], extracted_batch.responses[1])
    /\ ~extract_raises(extracted_batch.urls[2], extracted_batch.responses[2])
    /\ extracted_batch.outcome.value[2].name # ""
    /\ extracted_batch.urls[1] # extracted_batch.urls[2]


(***************************************************************************)
(* Properties of the heuristics.                                           *)
(***************************************************************************)
\* C18: for every score in 0..8, _score_to_priority returns 1 if
\* score >= 7, 2 if 5 <= score <= 6, 3 if 3 <= score <= 4, 4 if score = 2
\* and 0 if score <= 1.
C18_ScoreThresholds ==
    scored.called =>
        /\ scored.score >= 7 => scored.priority = 1
        /\ (5 <= scored.score /\ scored.score <= 6) => scored.priority = 2
        /\ (3 <= scored.score /\ scored.score <= 4) => scored.priority = 3
        /\ scored.score = 2 => scored.priority = 4
        /\ scored.score <= 1 => scored.priority = 0

\* Score 7, the lowest score of priority 1, was mapped.
C18_Witness == scored.called /\ scored.score = 7 /\ scored.priority = 1

\* C19: the removal impact is decided by the first matching tier in the
\* order core > system > gameplay > cosmetic > default and is never
\* cumulative: 4 if a core keyword occurs in the corpus, else 3 for a
\* system keyword, else 2 for a gameplay keyword, else 0 for a cosmetic
\* keyword, else 1, however many keywords or tiers match.
C19_RemovalImpactFirstTier ==
    estimated.called =>
        estimated.removal_impact =
            IF "core" \in estimated.tiers THEN 4
            ELSE IF "system" \in estimated.tiers THEN 3
            ELSE IF "gameplay" \in estimated.tiers THEN 2
            ELSE IF "cosmetic" \in estimated.tiers THEN 0
            ELSE 1

\* A corpus with keywords of the system, gameplay and cosmetic tiers.
C19_Witness ==
    /\ estimated.called
    /\ estimated.tiers = {"system", "gameplay", "cosmetic"}
    /\ estimated.removal_impact = 3

\* C20: the framework flag is 1 if a core keyword occurs in the corpus and
\* 0 otherwise; essentiality is 3 if a core keyword occurs, else 2 for a
\* system keyword, else 1 for a gameplay keyword, else 0: cosmetic
\* keywords never contribute.
C20_FrameworkAndEssentiality ==
    estimated.called =>
        /\ estimated.framework = IF "core" \in estimated.tiers THEN 1 ELSE 0
        /\ estimated.essentiality =
               IF "core" \in estimated.tiers THEN 3
               ELSE IF "system" \in estimated.tiers THEN 2
               ELSE IF "gameplay" \in estimated.tiers THEN 1
               ELSE 0

\* A corpus with no keyword at all, and so without a cosmetic one.
C20_Witness ==
    /\ estimated.called
    /\ estimated.tiers = {}
    /\ estimated.framework = 0
    /\ estimated.essentiality = 0

(***************************************************************************)
(* classify_mod on written corpora.                                        *)
(***************************************************************************)
\* The calls whose try body ran to its return statement.
OnNormalPath == {i \in DOMAIN classified :
                    ~corpus_raises(classified[i].args[1], classified[i].args[2],
                                   classified[i].args[3])}
ScoreOf(i) == classified[i].outcome.value.score
ConfidenceOf(i) == classified[i].outcome.value.confidence
CorpusOf(i) == corpus(classified[i].args[1], classified[i].args[2], classified[i].args[3])

\* n hundredths is min(score / 8, 1.0) rounded to two decimals: no hundredth
\* is nearer to it, and of two hundredths equally near the even one is taken.
IsRoundedOf(n, score) ==
    LET eighths == IF score <= 8 THEN score ELSE 8
        distance == 8 * n - 100 * eighths
    IN  /\ distance \in -4..4
        /\ distance \in {-4, 4} => n % 2 = 0

\* C21: on the normal path the confidence is min(score / 8, 1.0) rounded to
\* two decimals, and of two classifications the one with the lower or equal
\* score never has the higher confidence.
C21_ConfidenceRoundedAndMonotonic ==
    /\ \A i \in OnNormalPath :
          /\ ~classified[i].outcome.raised
          /\ \E n \in 0..100 :
                /\ ConfidenceOf(i).num * 100 = n * ConfidenceOf(i).den
                /\ IsRoundedOf(n, ScoreOf(i))
    /\ \A i, j \in OnNormalPath :
          ScoreOf(i) <= ScoreOf(j) =>
              ConfidenceOf(i).num * ConfidenceOf(j).den
                  <= ConfidenceOf(j).num * ConfidenceOf(i).den

\* Two corpora were classified, the first with the lower score, which lies
\* midway between two hundredths, and the lower confidence.
C21_Witness ==
    /\ Len(classified) = 2
    /\ OnNormalPath = {1, 2}
    /\ ScoreOf(1) = 1
    /\ ScoreOf(2) = 3
    /\ ConfidenceOf(1).num * 100 = 12 * ConfidenceOf(1).den
    /\ ConfidenceOf(2).num * 100 = 38 * ConfidenceOf(2).den

\* C24: on the normal path the score is one of 0, 1, 3, 5 and 8, the
\* framework flag is 1 exactly when the removal impact is 4 and the
\* essentiality is 3, the score is never 2 and the priority is never 4 or 5;
\* a classification that returns priority 4 is the fallback of the except
\* clause.
C24_ScoresAreCoupled ==
    /\ \A i \in OnNormalPath :
          LET text == CorpusOf(i)
              removal == _estimate_removal_impact(ModClassifier, text)
              framework == _detect_framework(ModClassifier, text)
              essential == _estimate_essentiality(ModClassifier, text)
          IN  /\ ~classified[i].outcome.raised
              /\ ScoreOf(i) = removal + framework + essential
              /\ ScoreOf(i) \in {0, 1, 3, 5, 8}
              /\ framework = 1 <=> (removal = 4 /\ essential = 3)
              /\ classified[i].outcome.value.priority \notin {4, 5}
              /\ classified[i].outcome.value.priority = _score_to_priority(ScoreOf(i))
    /\ \A i \in DOMAIN classified :
          (~classified[i].outcome.raised /\ classified[i].outcome.value.priority = 4)
              => i \notin OnNormalPath

\* A corpus with a gameplay and a cosmetic keyword, and no keyword of the
\* higher tiers, was classified: removal impact 2 and essentiality 1.
C24_Witness ==
    /\ Len(classified) = 1
    /\ OnNormalPath = {1}
    /\ classified[1].tiers = {"gameplay", "cosmetic"}
    /\ _estimate_removal_impact(ModClassifier, CorpusOf(1)) = 2
    /\ ScoreOf(1) = 3
    /\ classified[1].outcome.value.priority = 3

(***************************************************************************)
(* Concurrent calls of append_to_notes.                                    *)
(***************************************************************************)
BlocksBefore == existing_lines(page_before)

\* C22: when two concurrent calls with different lines, neither already in
\* Notes, have both returned, Notes holds both lines and every text it held
\* before.
C22_ConcurrentAppendsKeepBothLines ==
    (/\ \A self \in Appenders : appenders[self].pc = "returned"
     /\ \A self \in Appenders :
           /\ ~IsLineOf(appenders[self].extra_line, page_before)
           /\ \A i \in 1..Len(BlocksBefore) :
                 BlocksBefore[i] # appenders[self].extra_line)
        => /\ \A self \in Appenders : IsLineOf(appenders[self].extra_line, page)
           /\ \A i \in 1..Len(BlocksBefore) : contains(BlocksBefore[i], NotesText(page))

(***************************************************************************)
(* Retries of the Notion client.                                           *)
(***************************************************************************)
\* C23: a call of get_page, create_page or update_page sends at most three
\* requests to the API, none after a request that was answered, and after
\* three requests that raised the call raises instead of trying again.
C23_RetriesBounded ==
    LET requests == store_call.requests
        failed == {i \in 1..Len(requests) : requests[i].answer = "raises"}
    IN  /\ Len(requests) <= 3
        /\ \A i \in 1..Len(requests) : i < Len(requests) => i \in failed
        /\ store_call.status = "returned"
              <=> (requests # <<>> /\ Len(requests) \notin failed)
        /\ store_call.status = "raised" <=> Cardinality(failed) = 3
        /\ store_call.status = "running" => Len(requests) < 3

\* create_page returned on its third attempt, after two that raised.
C23_Witness ==
    /\ store_call.status = "returned"
    /\ store_call.method = "create_page"
    /\ Len(store_call.requests) = 3
    /\ store_call.requests[3].answer = "ok"

(***************************************************************************)
(* The tab "Novo Mod".                                                     *)
(***************************************************************************)
\* C25: the run that a click on "Salvar no Notion" triggers, after a run
\* of "Extrair e Classificar" that extracted a name and rendered the
\* button, calls create_page exactly once, with the name and the url of
\* that mod and a priority and a folder.
C25_SaveCreatesPageOnce ==
    \A i \in 2..Len(runs) :
        (/\ runs[i].clicked = "Salvar no Notion"
         /\ runs[i - 1].clicked = "Extrair e Classificar"
         /\ runs[i - 1].mod_info # None
         /\ runs[i - 1].mod_info.items.name # "")
            => /\ Len(runs[i].created) = 1
               /\ runs[i].created[1].items.name = Str(runs[i - 1].mod_info.items.name)
               /\ runs[i].created[1].items.url = Str(runs[i - 1].mod_info.items.url)
               /\ "priority" \in DOMAIN runs[i].created[1].items
               /\ "folder" \in DOMAIN runs[i].created[1].items

====
